---- MODULE Spec2Model ----
(***************************************************************************)
(* A model of listprocs: the table renderer (utils/table.rs), the process  *)
(* filter and the tree builder (cli.rs, cli/tree.rs), the sort engine      *)
(* (cli/common.rs), the per-process query of the two back-ends             *)
(* (ffi/darwin.rs, ffi/linux.rs) and the parallel acquisition              *)
(* (process_info.rs).  Each component has its own specification over its   *)
(* own variables; the variables of the other components stay idle.         *)
(***************************************************************************)
EXTENDS Integers, Sequences, FiniteSets, TLC

VARIABLES
    \* ---- table renderer ----
    columns,          \* Seq of Column records; `width` is the mutable field
    output,           \* what Builder::build produced
    tpc,              \* "fresh" (columns built) | "measured" | "built"
    \* ---- tree builder ----
    procs,            \* the full record set: pid -> record
    passing,          \* pids of the records the filter let through
    include_ancestors,
    pending,          \* records the loop of create_tree has not taken yet
    cur_path,         \* the Vec the ancestor walk fills, leaf first
    cur_root,         \* path from the root to the node `cur_root` points at
    root,             \* the tree: the set of the paths to its nodes
    trpc,             \* "loop" | "walk" | "insert" | "done"
    \* ---- filter ----
    fargs,            \* the command line as given (Args before defaults)
    filter,           \* the ProcessFilter main() builds
    frecords,         \* the records handed to apply_filter
    accepted,         \* the records apply_filter yields
    fpc,              \* "args" | "ready" | "filtered"
    \* ---- sort ----
    sort,             \* TableArgs::sort, the list of sort keys
    collected,        \* the filtered records as collected, before the sort
    processes_info,   \* the Vec sorted_processes_info returns
    spc,              \* "args" | "sorted"
    \* ---- per-process query ----
    backend,          \* "darwin" | "linux" | "cli" (the wrapper of cli.rs)
    pstate,           \* the queried process: "alive" | "zombie" | "gone"
    denied,           \* the OS calls the caller has no permission for
    has_passwd,       \* the owner has an entry in the user database
    qpc,              \* the next OS call of the query, or "done"
    qcmd,             \* the cmd_line the query has read so far
    qpath,            \* the path the query has read so far
    is_defunct,       \* linux: the state read from /proc/pid/stat was 'Z'
    esrch_seen,       \* an OS call of this query reported ESRCH
    denials,          \* the OS calls of this query that were denied
    qresult,          \* what info() returned
    \* ---- parallel acquisition ----
    aowner,           \* pid -> uid of the owner, as the OS knows it
    afate,            \* pid -> "ok" | "fail_early" | "fail_late"
    apc,              \* pid -> position of the worker that queries it
    pwbuf,            \* the static buffer getpwuid answers in
    aname,            \* pid -> the username the worker copied
    aresult,          \* pid -> what the closure of filter_map returned
    acollected,       \* the collected sequence, None before the fan-in
    \* ---- one cell of a bordered table ----
    cvalue,           \* the value calc_value gave for the cell
    cwidth,           \* the column's final width
    cchecks,          \* the build panics on arithmetic overflow
    cell,             \* the cell as written to the output
    cpc,              \* "value" | "written"
    \* ---- width estimate of one column for one row ----
    wcolumn,          \* the column: which program text builds it, and its field
    wrow,             \* the record of the row: pid, parent pid, username
    westimate,        \* what the width estimator of the column answered
    wvalue,           \* what the value renderer of the column produced
    wpc,              \* "row" | "measured"
    \* ---- order of the values of a field ----
    oinfos,           \* three values of one field, as three records hold it
    okind,            \* "Ord" (Info<T: Ord>) | "f64" (Info<f64>)
    ocmp,             \* what comparing each pair of them answered
    opc,              \* "values" | "compared"
    \* ---- one node line of the tree printer ----
    borders,          \* the length of `borders`: one character per nesting level
    ppid,             \* the pid of the node
    name,             \* the label of the node, before truncation
    terminal_width,   \* GlobalOptions::terminal_width
    pchecks,          \* the build panics on arithmetic overflow
    line,             \* the line println! wrote
    ppc,              \* "node" | "printed"
    \* ---- the stat parser and list_all ----
    stat,             \* the stat text of each pid of the run
    squeried,         \* the pids list_all has asked
    slisted,          \* the pids list_all yields
    sdiagnosed,       \* the pids reported on stderr and dropped
    saborted,         \* a panic left list_all
    statpc,           \* "off", "listing"
    \* ---- repeated builds on the same columns ----
    rtemplate,        \* the columns as ColumnBuilder::build made them
    rcolumns,         \* the column objects handed to every build
    rchecks,          \* the build panics on arithmetic overflow
    routput,          \* the last build on the column objects
    rfresh,           \* the same build on freshly made columns
    rpasses,          \* the builds done so far
    \* ---- the watch loop ----
    live,             \* the pids the system runs now
    watch_info,       \* processes_info of the current iteration
    screen,           \* the records of the table printed last
    polls,            \* the polls started so far
    renders,          \* the tables printed so far
    watchpc,          \* "off", "poll", "render", "sleep"
    \* ---- the shrink-to-fit step on wide columns ----
    snatural,         \* the columns with their measured widths
    smax_width,       \* the target width of the table
    schecks,          \* the build panics on arithmetic overflow
    sfit,             \* the outcome of the shrink-to-fit step
    shrinkpc,         \* "off", "measured", "fitted"
    \* ---- list_all and the errors of the queries ----
    lsource,          \* which list_all runs: "process_info" or "cli"
    lquery,           \* what the query of each listed pid returns
    lasked,           \* the pids whose closure has run
    lyielded,         \* the pids list_all yields
    lstderr,          \* the diagnostics printed for each pid
    listpc,           \* "off", "listing"
    \* ---- one table in the bordered and the plain style ----
    bcolumns,         \* the columns as ColumnBuilder::build made them
    bdata,            \* the rows
    bmax_width,       \* the target width
    bchecks,          \* the build panics on arithmetic overflow
    bordered,         \* what build_bordered wrote
    plain,            \* what build_plain wrote
    renderpc,         \* "off", "fresh", "rendered"
    \* ---- the parsers of the KERN_PROCARGS2 buffer ----
    arg_count,        \* the argc word at the head of the buffer
    args_mem,         \* the bytes of the buffer after the argc word
    new_result,       \* what Pid::cmd_line returned
    old_result,       \* what CmdLine::for_pid returned
    argspc            \* "off", "filled", "parsed"

tableVars == <<columns, output, tpc>>
treeVars ==
    <<procs, passing, include_ancestors, pending, cur_path, cur_root, root,
      trpc>>

filterVars == <<fargs, filter, frecords, accepted, fpc>>

sortVars == <<sort, collected, processes_info, spc>>
queryVars ==
    <<backend, pstate, denied, has_passwd, qpc, qcmd, qpath, is_defunct,
      esrch_seen, denials, qresult>>

acqVars == <<aowner, afate, apc, pwbuf, aname, aresult, acollected>>

cellVars == <<cvalue, cwidth, cchecks, cell, cpc>>

widthVars == <<wcolumn, wrow, westimate, wvalue, wpc>>

orderVars == <<oinfos, okind, ocmp, opc>>

printVars == <<borders, ppid, name, terminal_width, pchecks, line, ppc>>

statVars == <<stat, squeried, slisted, sdiagnosed, saborted, statpc>>

rerenderVars == <<rtemplate, rcolumns, rchecks, routput, rfresh, rpasses>>

watchVars == <<live, watch_info, screen, polls, renders, watchpc>>

shrinkVars == <<snatural, smax_width, schecks, sfit, shrinkpc>>

listVars == <<lsource, lquery, lasked, lyielded, lstderr, listpc>>

renderVars == <<bcolumns, bdata, bmax_width, bchecks, bordered, plain, renderpc>>

argsVars == <<arg_count, args_mem, new_result, old_result, argspc>>

vars == <<tableVars, treeVars, filterVars, sortVars, queryVars, acqVars, cellVars, widthVars, orderVars, printVars, statVars, rerenderVars, watchVars, shrinkVars, listVars, renderVars, argsVars>>

notTable == <<treeVars, filterVars, sortVars, queryVars, acqVars, cellVars, widthVars, orderVars, printVars, statVars, rerenderVars, watchVars, shrinkVars, listVars, renderVars, argsVars>>
notTree == <<tableVars, filterVars, sortVars, queryVars, acqVars, cellVars, widthVars, orderVars, printVars, statVars, rerenderVars, watchVars, shrinkVars, listVars, renderVars, argsVars>>
notFilter == <<tableVars, treeVars, sortVars, queryVars, acqVars, cellVars, widthVars, orderVars, printVars, statVars, rerenderVars, watchVars, shrinkVars, listVars, renderVars, argsVars>>
notSort == <<tableVars, treeVars, filterVars, queryVars, acqVars, cellVars, widthVars, orderVars, printVars, statVars, rerenderVars, watchVars, shrinkVars, listVars, renderVars, argsVars>>
notQuery == <<tableVars, treeVars, filterVars, sortVars, acqVars, cellVars, widthVars, orderVars, printVars, statVars, rerenderVars, watchVars, shrinkVars, listVars, renderVars, argsVars>>
notAcq == <<tableVars, treeVars, filterVars, sortVars, queryVars, cellVars, widthVars, orderVars, printVars, statVars, rerenderVars, watchVars, shrinkVars, listVars, renderVars, argsVars>>
notCell == <<tableVars, treeVars, filterVars, sortVars, queryVars, acqVars, widthVars, orderVars, printVars, statVars, rerenderVars, watchVars, shrinkVars, listVars, renderVars, argsVars>>
notWidth == <<tableVars, treeVars, filterVars, sortVars, queryVars, acqVars, cellVars, orderVars, printVars, statVars, rerenderVars, watchVars, shrinkVars, listVars, renderVars, argsVars>>
notOrder == <<tableVars, treeVars, filterVars, sortVars, queryVars, acqVars, cellVars, widthVars, printVars, statVars, rerenderVars, watchVars, shrinkVars, listVars, renderVars, argsVars>>
notPrint == <<tableVars, treeVars, filterVars, sortVars, queryVars, acqVars, cellVars, widthVars, orderVars, statVars, rerenderVars, watchVars, shrinkVars, listVars, renderVars, argsVars>>
notStat == <<tableVars, treeVars, filterVars, sortVars, queryVars, acqVars, cellVars, widthVars, orderVars, printVars, rerenderVars, watchVars, shrinkVars, listVars, renderVars, argsVars>>
notRerender == <<tableVars, treeVars, filterVars, sortVars, queryVars, acqVars, cellVars, widthVars, orderVars, printVars, statVars, watchVars, shrinkVars, listVars, renderVars, argsVars>>
notWatch == <<tableVars, treeVars, filterVars, sortVars, queryVars, acqVars, cellVars, widthVars, orderVars, printVars, statVars, rerenderVars, shrinkVars, listVars, renderVars, argsVars>>
notShrink == <<tableVars, treeVars, filterVars, sortVars, queryVars, acqVars, cellVars, widthVars, orderVars, printVars, statVars, rerenderVars, watchVars, listVars, renderVars, argsVars>>
notList == <<tableVars, treeVars, filterVars, sortVars, queryVars, acqVars, cellVars, widthVars, orderVars, printVars, statVars, rerenderVars, watchVars, shrinkVars, renderVars, argsVars>>
notRender == <<tableVars, treeVars, filterVars, sortVars, queryVars, acqVars, cellVars, widthVars, orderVars, printVars, statVars, rerenderVars, watchVars, shrinkVars, listVars, argsVars>>
notArgs == <<tableVars, treeVars, filterVars, sortVars, queryVars, acqVars, cellVars, widthVars, orderVars, printVars, statVars, rerenderVars, watchVars, shrinkVars, listVars, renderVars>>

(***************************************************************************)
(* Generic helpers                                                         *)
(***************************************************************************)

\* Option<T> is a sequence of length 0 or 1.
None == <<>>
Some(x) == <<x>>

Max(a, b) == IF a >= b THEN a ELSE b
Min(a, b) == IF a <= b THEN a ELSE b
Abs(a) == IF a >= 0 THEN a ELSE -a

\* Rust's `/` on isize truncates toward zero (b > 0 here).
TruncDiv(a, b) == IF a >= 0 THEN a \div b ELSE -((-a) \div b)

\* (a + b - 1) / b on usize.
CeilDiv(a, b) == (a + b - 1) \div b

RECURSIVE SumSeq(_)
SumSeq(s) == IF s = <<>> THEN 0 ELSE Head(s) + SumSeq(Tail(s))

(***************************************************************************)
(* Table renderer: utils/table.rs                                          *)
(***************************************************************************)

\* ---- bounds of the table model ----
MaxCols == 3
MaxTarget == 24
MaxRows == 1

\* Builder::h_padding as the program sets it (cli/list.rs: `.h_padding(2)`).
BuilderHPadding == 2

\* Header lengths (chars) of the modelled columns.
NameLens == {2}
\* Per-column padding: None (the builder's) or Some(1), the two the program uses.
HPaddings == {None, Some(1)}

\* A cell value is the sequence of the UTF-8 byte lengths of its characters.
Ascii(n) == [i \in 1..n |-> 1]
CellValues == {Ascii(1), Ascii(8)}

CharCount(value) == Len(value)
ByteLen(value) == SumSeq(value)

\* ColumnBuilder::build: the width starts at the header's character count.
ColumnBuild(name_len, h_padding, can_shrink) ==
    [name_len |-> name_len, width |-> name_len, max_width |-> None,
     h_padding |-> h_padding, can_shrink |-> can_shrink]

HPaddingOf(column) ==
    IF column.h_padding = None THEN BuilderHPadding ELSE column.h_padding[1]

\* Lines 171-186: the natural width of every column over the rows, clamped.
RECURSIVE MaxOverRows(_, _, _)
MaxOverRows(width, data, i) ==
    IF data = <<>> THEN width
    ELSE MaxOverRows(Max(width, CharCount(Head(data)[i])), Tail(data), i)

MeasureWidths(cols, data) ==
    [i \in DOMAIN cols |->
        LET w == MaxOverRows(cols[i].width, data, i)
        IN  [cols[i] EXCEPT !.width =
                IF cols[i].max_width = None THEN w
                ELSE Min(w, cols[i].max_width[1])]]

Widths(cols) == [i \in DOMAIN cols |-> cols[i].width]

\* A total that leaves out the border characters.
TotalWidthNoBordersMutant(cols) ==
    SumSeq([i \in DOMAIN cols |-> cols[i].width + 2 * HPaddingOf(cols[i])])

\* Lines 189-193.
total_width(cols) ==
    SumSeq([i \in DOMAIN cols |-> cols[i].width + 2 * HPaddingOf(cols[i])])
        + (Len(cols) + 1)

\* Lines 195-199 and 217-221.
shrinkable_width(cols) ==
    SumSeq([i \in DOMAIN cols |-> IF cols[i].can_shrink THEN cols[i].width ELSE 0])

shrinkable_columns(cols) ==
    Cardinality({i \in DOMAIN cols : cols[i].can_shrink})

\* Line 200.
non_shrinkable_width(cols) == total_width(cols) - shrinkable_width(cols)

\* Lines 205-207: the proportional-share result (may be negative: underflow).
scaled(cols, max_width, i) ==
    cols[i].width
        - CeilDiv((total_width(cols) - max_width) * cols[i].width,
                  shrinkable_width(cols))

\* Line 208: the equal split of the room left to the shrinkable columns.
equal(cols, max_width) ==
    (max_width - non_shrinkable_width(cols)) \div shrinkable_columns(cols)

\* Lines 209-213: the blend of the two.
BlendWeightMutant(cols, max_width) ==
    <<4 * total_width(cols) - (3 * max_width + total_width(cols)),
      4 * total_width(cols)>>

blend_weight(cols, max_width) ==
    <<3 * max_width + total_width(cols), 4 * total_width(cols)>>

blended(cols, max_width, i) ==
    LET w == blend_weight(cols, max_width)
        e == equal(cols, max_width)
    IN  e + TruncDiv((scaled(cols, max_width, i) - e) * w[1], w[2])

\* Lines 202-215: the blended pass over the shrinkable columns.
BlendedPass(cols, max_width) ==
    IF shrinkable_width(cols) = 0 THEN cols
    ELSE [i \in DOMAIN cols |->
            IF cols[i].can_shrink
            THEN [cols[i] EXCEPT !.width = blended(cols, max_width, i)]
            ELSE cols[i]]

\* Lines 217-227: the leftover goes, one unit each, to the first columns.
RedistributeSlack(cols, take) ==
    [i \in DOMAIN cols |->
        IF i <= take THEN [cols[i] EXCEPT !.width = @ + 1] ELSE cols[i]]

\* An unsigned subtraction of the blended pass would be negative.
BlendUnderflow(cols, max_width) ==
    /\ shrinkable_width(cols) # 0
    /\ \/ max_width < non_shrinkable_width(cols)
       \/ \E i \in DOMAIN cols :
            cols[i].can_shrink /\ scaled(cols, max_width, i) < 0

\* Lines 188-229.  status: "ok", "panic" (an overflow check failed) or
\* "wrapped" (a build without overflow checks went on with wrapped-around
\* widths, which the model does not follow further).  shrunk: the branch of
\* line 194 was entered; blend_done: the blended pass ran to its end.
ShrinkToFit(cols, max_width, checks) ==
    IF max_width = None \/ total_width(cols) < max_width[1]
    THEN [status |-> "ok", shrunk |-> FALSE, blend_done |-> FALSE,
          columns |-> cols, blended |-> cols]
    ELSE
      LET m == max_width[1]
          ns == non_shrinkable_width(cols)
      IN  IF BlendUnderflow(cols, m)
          THEN [status |-> IF checks THEN "panic" ELSE "wrapped",
                shrunk |-> TRUE, blend_done |-> FALSE,
                columns |-> cols, blended |-> cols]
          ELSE
            LET b == BlendedPass(cols, m)
                done == shrinkable_width(cols) # 0
                take == m - (shrinkable_width(b) + ns)
            IN  IF take >= 0
                THEN [status |-> "ok", shrunk |-> TRUE, blend_done |-> done,
                      columns |-> RedistributeSlack(b, take), blended |-> b]
                ELSE IF checks
                THEN [status |-> "panic", shrunk |-> TRUE, blend_done |-> done,
                      columns |-> b, blended |-> b]
                \* the wrapped count exceeds every column count: take(all)
                ELSE [status |-> "ok", shrunk |-> TRUE, blend_done |-> done,
                      columns |-> RedistributeSlack(b, Len(b)), blended |-> b]

\* Lines 233-245: the length of a border line.
BorderLineLen(cols) ==
    SumSeq([i \in DOMAIN cols |-> cols[i].width + 2 * HPaddingOf(cols[i])])
        + (Len(cols) + 1)

\* Lines 188-312 of build_bordered, after the widths are measured: the fit
\* and the border.  `checks`: the build panics on arithmetic overflow.
FitAndRender(natural, max_width, checks) ==
    LET fit == ShrinkToFit(natural, max_width, checks)
    IN  [status |-> fit.status,
         shrunk |-> fit.shrunk,
         blend_done |-> fit.blend_done,
         natural |-> natural,
         blended |-> fit.blended,
         max_width |-> max_width,
         line_len |-> BorderLineLen(fit.columns),
         columns |-> fit.columns]

NoOutput ==
    [status |-> "none", shrunk |-> FALSE, blend_done |-> FALSE,
     natural |-> <<>>, blended |-> <<>>,
     max_width |-> None, line_len |-> 0, columns |-> <<>>]

ColumnSets ==
    UNION {[1..n -> {ColumnBuild(l, p, s) :
                        l \in NameLens, p \in HPaddings, s \in BOOLEAN}]
           : n \in 1..MaxCols}

DataSets(n) ==
    UNION {[1..r -> [1..n -> CellValues]] : r \in 0..MaxRows}

TargetWidths == {None} \cup {Some(m) : m \in 0..MaxTarget}

TableInit ==
    /\ columns \in ColumnSets
    /\ output = NoOutput
    /\ tpc = "fresh"

\* The renderer is not in use.
TableIdle ==
    /\ columns = <<>>
    /\ output = NoOutput
    /\ tpc = "off"

\* build_bordered, first loop (lines 171-186): every column's width grows to
\* the widest value of the rows.
BuildMeasure ==
    /\ tpc = "fresh"
    /\ \E data \in DataSets(Len(columns)) :
         columns' = MeasureWidths(columns, data)
    /\ tpc' = "measured"
    /\ UNCHANGED <<output, notTable>>

\* build_bordered, the rest (lines 188-312): shrink to the target width and
\* render.  The target is the terminal width; the build profile decides
\* whether an arithmetic overflow panics.
BuildRender ==
    /\ tpc = "measured"
    /\ \E max_width \in TargetWidths, checks \in BOOLEAN :
         LET out == FitAndRender(columns, max_width, checks)
         IN  /\ output' = out
             /\ columns' = out.columns
    /\ tpc' = "built"
    /\ UNCHANGED notTable

TableNext == BuildMeasure \/ BuildRender

(***************************************************************************)
(* The tree builder (cli/tree.rs)                                          *)
(***************************************************************************)

MaxPid == 3

Pids == 1..MaxPid

\* A record as the tree builder reads it: ProcessInfo::Defunct, or Running
\* with its parent_pid.  Parent 0 stands for a pid that has no record (pid
\* 0 is dropped by list_all).
Defunct == [defunct |-> TRUE, parent_pid |-> 0]
Running(parent_pid) == [defunct |-> FALSE, parent_pid |-> parent_pid]

ProcessInfos == {Defunct} \cup {Running(p) : p \in 0..MaxPid}

\* All record sets: HashMap<Pid, ProcessInfo>.
RecordSets == UNION {[S -> ProcessInfos] : S \in SUBSET Pids}

Restrict(f, S) == [x \in S |-> f[x]]

\* tree(), lines 122-138: the map the walk resolves parents in.
full_processes_info ==
    IF include_ancestors THEN procs ELSE Restrict(procs, passing)

\* Lines 37-42: the successor of a walk element, None at the end.
SuccessorAnyScopeMutant(pid) ==
    LET info == procs[pid]
    IN  IF info.defunct THEN None
        ELSE IF info.parent_pid \in DOMAIN procs
        THEN Some(info.parent_pid)
        ELSE None

Successor(pid) ==
    LET info == full_processes_info[pid]
    IN  IF info.defunct THEN None
        ELSE IF info.parent_pid \in DOMAIN full_processes_info
        THEN Some(info.parent_pid)
        ELSE None

\* The walk is followed for at most this many elements.
MaxWalk == MaxPid + 2

\* Line 45: Vec::pop takes the last element.
PopFrontMutant(path) == 1

PopIndex(path) == Len(path)

RemoveAt(path, k) ==
    [i \in 1..(Len(path) - 1) |-> IF i < k THEN path[i] ELSE path[i + 1]]

TreeInit ==
    /\ procs \in RecordSets
    /\ passing \in SUBSET DOMAIN procs
    /\ include_ancestors \in BOOLEAN
    /\ pending = passing
    /\ cur_path = <<>>
    /\ cur_root = <<>>
    /\ root = {}
    /\ trpc = "loop"

TreeIdle ==
    /\ procs = <<>>
    /\ passing = {}
    /\ include_ancestors = FALSE
    /\ pending = {}
    /\ cur_path = <<>>
    /\ cur_root = <<>>
    /\ root = {}
    /\ trpc = "off"

\* Line 34 and the first element of iter::successors (line 36): the loop
\* takes the next filtered record, in the map's iteration order.
NextRecord ==
    /\ trpc = "loop"
    /\ \E pid \in pending :
         /\ pending' = pending \ {pid}
         /\ cur_path' = <<pid>>
    /\ trpc' = "walk"
    /\ UNCHANGED <<procs, passing, include_ancestors, cur_root, root, notTree>>

\* Lines 35-43: one more element of iter::successors goes into cur_path, or
\* the iterator ends and the insertion starts at the root (line 44).
WalkStep ==
    /\ trpc = "walk"
    /\ Len(cur_path) < MaxWalk
    /\ LET next == Successor(cur_path[Len(cur_path)])
       IN  IF next = None
           THEN /\ trpc' = "insert"
                /\ cur_root' = <<>>
                /\ UNCHANGED cur_path
           ELSE /\ cur_path' = Append(cur_path, next[1])
                /\ UNCHANGED <<trpc, cur_root>>
    /\ UNCHANGED <<procs, passing, include_ancestors, pending, root, notTree>>

\* Lines 45-47: pop one pid, descend into (or create) its node.
InsertStep ==
    /\ trpc = "insert"
    /\ LET k == PopIndex(cur_path)
           node == Append(cur_root, cur_path[k])
       IN  /\ cur_path' = RemoveAt(cur_path, k)
           /\ cur_root' = node
           /\ root' = root \cup {node}
           /\ trpc' = IF Len(cur_path) = 1 THEN "loop" ELSE "insert"
    /\ UNCHANGED <<procs, passing, include_ancestors, pending, notTree>>

\* Line 50: every filtered record was inserted, the tree is returned.
ReturnRoot ==
    /\ trpc = "loop"
    /\ pending = {}
    /\ trpc' = "done"
    /\ UNCHANGED <<procs, passing, include_ancestors, pending, cur_path,
                   cur_root, root, notTree>>

TreeNext == NextRecord \/ WalkStep \/ InsertStep \/ ReturnRoot

(***************************************************************************)
(* The filter (cli.rs)                                                     *)
(***************************************************************************)

\* Strings whose bytes matter are sequences of one-character strings.
StartsWith(string, prefix) ==
    /\ Len(prefix) <= Len(string)
    /\ SubSeq(string, 1, Len(prefix)) = prefix

SeqRange(seq) == {seq[i] : i \in DOMAIN seq}

\* cli.rs lines 25-32.
SIP_PREFIXES ==
    << <<"/", "b", "i", "n">>,
       <<"/", "s", "b", "i", "n">>,
       <<"/", "u", "s", "r", "/", "b", "i", "n">>,
       <<"/", "u", "s", "r", "/", "s", "b", "i", "n">>,
       <<"/", "u", "s", "r", "/", "l", "i", "b", "e", "x", "e", "c">>,
       <<"/", "S", "y", "s", "t", "e", "m">> >>

PathBinLs == <<"/", "b", "i", "n", "/", "l", "s">>
PathOptA == <<"/", "o", "p", "t", "/", "a">>
Paths == {PathBinLs, PathOptA}

StrDefunct == <<"<", "d", "e", "f", "u", "n", "c", "t", ">">>
StrUnknown == <<"<", "u", "n", "k", "n", "o", "w", "n", ">">>
StrUnauthorized ==
    <<"<", "u", "n", "a", "u", "t", "h", "o", "r", "i", "z", "e", "d", ">">>
StrLsL == <<"l", "s", " ", "-", "l">>

\* ffi::CmdLine: None, Unauthorized or Some(string).
CmdLineNone == [kind |-> "None", value |-> <<>>]
CmdLineUnauthorized == [kind |-> "Unauthorized", value |-> <<>>]
CmdLineSome(string) == [kind |-> "Some", value |-> string]
CmdLines == {CmdLineUnauthorized, CmdLineSome(StrLsL)}

NameRoot == <<"r", "o", "o", "t">>
NameAl == <<"a", "l">>
\* The accounts of the machine: uid and the name getpwuid gives for it.
Accounts == {<<0, NameRoot>>, <<12, NameAl>>}
CurrentUid == 12

\* The records the filter reads: ProcessInfo::Defunct or
\* ProcessInfo::Running(RunningProcessInfo).
DefunctInfo ==
    [defunct |-> TRUE, uid |-> 0, username |-> <<>>, path |-> <<>>,
     cmd_line |-> CmdLineNone]
RunningInfo(uid, username, path, cmd_line) ==
    [defunct |-> FALSE, uid |-> uid, username |-> username, path |-> path,
     cmd_line |-> cmd_line]
FilterInfos ==
    {DefunctInfo} \cup
    {RunningInfo(a[1], a[2], path, c) :
        a \in Accounts, path \in Paths, c \in CmdLines}

\* Lines 57-61.
is_sip_protected(info) ==
    \E i \in DOMAIN SIP_PREFIXES : StartsWith(info.path, SIP_PREFIXES[i])

\* Lines 63-69 and 79-84.
cmd_line_str(info) ==
    IF info.defunct THEN StrDefunct
    ELSE IF info.cmd_line.kind = "None" THEN StrUnknown
    ELSE IF info.cmd_line.kind = "Unauthorized" THEN StrUnauthorized
    ELSE info.cmd_line.value

\* A compiled regex is the set of the strings it matches.
Haystacks ==
    Paths \cup {StrDefunct, StrUnknown, StrUnauthorized, StrLsL}
Regexes == {Haystacks, {PathBinLs, StrLsL}, {StrDefunct}}
is_match(regex, string) == string \in regex

MaxUserArgs == 2
MaxFRecords == 1

Digits == <<"0", "1", "2", "3", "4", "5", "6", "7", "8", "9">>
IsDigit(c) == \E i \in DOMAIN Digits : Digits[i] = c
DigitVal(c) == (CHOOSE i \in DOMAIN Digits : Digits[i] = c) - 1

RECURSIVE DecimalValue(_)
DecimalValue(chars) ==
    IF chars = <<>> THEN 0
    ELSE 10 * DecimalValue(SubSeq(chars, 1, Len(chars) - 1))
         + DigitVal(chars[Len(chars)])

\* unix.rs lines 49-54: uid_t::from_str, an optional "+" and digits.
ParseUid(value) ==
    LET digits == IF value # <<>> /\ value[1] = "+" THEN Tail(value) ELSE value
    IN  IF digits # <<>> /\ \A i \in DOMAIN digits : IsDigit(digits[i])
        THEN Some(DecimalValue(digits))
        ELSE None

\* user_filter.rs lines 41-54.
parse_ref(value) ==
    IF value = <<>> THEN [kind |-> "Err", uid |-> 0, username |-> <<>>]
    ELSE IF value = <<"-">>
    THEN [kind |-> "Uid", uid |-> CurrentUid, username |-> <<>>]
    ELSE IF ParseUid(value) # None
    THEN [kind |-> "Uid", uid |-> ParseUid(value)[1], username |-> <<>>]
    ELSE [kind |-> "Username", uid |-> 0, username |-> value]

UserValues == {<<"-">>, <<"0">>, NameAl}

\* cli.rs lines 300-307: the two lists main() splits --user into.
RECURSIVE user_ids(_)
user_ids(filters) ==
    IF filters = <<>> THEN <<>>
    ELSE IF Head(filters).kind = "Uid"
    THEN <<Head(filters).uid>> \o user_ids(Tail(filters))
    ELSE user_ids(Tail(filters))

RECURSIVE usernames(_)
usernames(filters) ==
    IF filters = <<>> THEN <<>>
    ELSE IF Head(filters).kind = "Username"
    THEN <<Head(filters).username>> \o usernames(Tail(filters))
    ELSE usernames(Tail(filters))

\* The command lines: Args as the user gave it, None for an absent option.
ArgsSets ==
    [regex : {None} \cup {Some(r) : r \in Regexes},
     invert_matches : BOOLEAN,
     user_filter : {None} \cup
        {Some(l) : l \in UNION {[1..n -> UserValues] : n \in 1..MaxUserArgs}},
     include_defunct : {None, Some(TRUE)},
     include_sip : {None, Some(TRUE), Some(FALSE)}]

\* Lines 252-277: the defaults clap fills in.
IncludeSipDefault(args) == args.regex # None

IncludeDefunctDefault == FALSE

\* Lines 297-317: Args::parse and the ProcessFilter of GlobalOptions.
BuildFilter(args) ==
    LET parsed == IF args.user_filter = None THEN <<>>
                  ELSE [i \in DOMAIN args.user_filter[1] |->
                           parse_ref(args.user_filter[1][i])]
    IN  [regex |-> args.regex,
         invert_regex |-> args.invert_matches,
         user_ids |-> user_ids(parsed),
         usernames |-> usernames(parsed),
         include_defunct |-> IF args.include_defunct = None
                             THEN IncludeDefunctDefault
                             ELSE args.include_defunct[1],
         include_sip |-> IF args.include_sip = None
                         THEN IncludeSipDefault(args)
                         ELSE args.include_sip[1]]

\* Lines 144-156: the owner part of ProcessInfo::filter.
OwnerMatchDefunctPassMutant(info, f) ==
    /\ \/ f.usernames = <<>>
       \/ info.defunct
       \/ info.username \in SeqRange(f.usernames)
    /\ \/ f.user_ids = <<>>
       \/ info.defunct
       \/ info.uid \in SeqRange(f.user_ids)

OwnerMatch(info, f) ==
    /\ \/ f.usernames = <<>>
       \/ ~info.defunct /\ info.username \in SeqRange(f.usernames)
    /\ \/ f.user_ids = <<>>
       \/ ~info.defunct /\ info.uid \in SeqRange(f.user_ids)

\* Lines 141-143.
InclusionDropDefunctMutant(info, f) ==
    ~info.defunct /\ (f.include_sip \/ ~is_sip_protected(info))

InclusionMatch(info, f) ==
    IF info.defunct THEN f.include_defunct
    ELSE f.include_sip \/ ~is_sip_protected(info)

\* Lines 156-166.
RegexMatchPathOnlyMutant(info, f) ==
    \/ f.regex = None
    \/ f.invert_regex #
          (IF info.defunct THEN is_match(f.regex[1], StrDefunct)
           ELSE is_match(f.regex[1], info.path))

RegexMatch(info, f) ==
    \/ f.regex = None
    \/ f.invert_regex #
          (IF info.defunct THEN is_match(f.regex[1], StrDefunct)
           ELSE \/ is_match(f.regex[1], info.path)
                \/ is_match(f.regex[1], cmd_line_str(info)))

\* Lines 140-167: ProcessInfo::filter.
Filter(info, f) ==
    /\ InclusionMatch(info, f)
    /\ OwnerMatch(info, f)
    /\ RegexMatch(info, f)

\* Lines 169-175: apply_filter keeps the records filter() accepts, in order.
RECURSIVE apply_filter(_, _)
apply_filter(infos, f) ==
    IF infos = <<>> THEN <<>>
    ELSE IF Filter(Head(infos), f)
    THEN <<Head(infos)>> \o apply_filter(Tail(infos), f)
    ELSE apply_filter(Tail(infos), f)

NoFilter ==
    [regex |-> None, invert_regex |-> FALSE, user_ids |-> <<>>,
     usernames |-> <<>>, include_defunct |-> FALSE, include_sip |-> FALSE]

NoArgs ==
    [regex |-> None, invert_matches |-> FALSE, user_filter |-> None,
     include_defunct |-> None, include_sip |-> None]

FilterInit ==
    /\ fargs \in ArgsSets
    /\ filter = NoFilter
    /\ frecords = <<>>
    /\ accepted = <<>>
    /\ fpc = "args"

FilterIdle ==
    /\ fargs = NoArgs
    /\ filter = NoFilter
    /\ frecords = <<>>
    /\ accepted = <<>>
    /\ fpc = "off"

\* main(), lines 297-320.
MainBuildFilter ==
    /\ fpc = "args"
    /\ filter' = BuildFilter(fargs)
    /\ fpc' = "ready"
    /\ UNCHANGED <<fargs, frecords, accepted, notFilter>>

\* apply_filter over the records list_all yielded.
ApplyFilter ==
    /\ fpc = "ready"
    /\ \E infos \in UNION {[1..n -> FilterInfos] : n \in 0..MaxFRecords} :
         /\ frecords' = infos
         /\ accepted' = apply_filter(infos, filter)
    /\ fpc' = "filtered"
    /\ UNCHANGED <<fargs, filter, notFilter>>

FilterNext == MainBuildFilter \/ ApplyFilter

(***************************************************************************)
(* The sort engine (cli/common.rs)                                         *)
(***************************************************************************)

MaxSortLen == 3

\* info.rs lines 1-6: the variants of Info<T> in declaration order, which is
\* the order derive(PartialOrd, Ord) compares them in.
InfoDefunct == [tag |-> 0, val |-> 0]
InfoUnauthorized == [tag |-> 1, val |-> 0]
InfoSome(x) == [tag |-> 2, val |-> x]

\* The f64 that is not a number (0.0 / 0.0 at linux.rs line 176).
NaN == -1

CmpInt(a, b) == IF a < b THEN "Less" ELSE IF a > b THEN "Greater" ELSE "Equal"

\* Ord::cmp of Info<T>.
InfoCmp(a, b) ==
    IF a.tag # b.tag THEN CmpInt(a.tag, b.tag)
    ELSE IF a.tag = 2 THEN CmpInt(a.val, b.val)
    ELSE "Equal"

\* PartialOrd::partial_cmp of Info<f64>: None when a NaN is compared.
InfoPartialCmp(a, b) ==
    IF a.tag # b.tag THEN Some(CmpInt(a.tag, b.tag))
    ELSE IF a.tag # 2 THEN Some("Equal")
    ELSE IF a.val = NaN \/ b.val = NaN THEN None
    ELSE Some(CmpInt(a.val, b.val))

UnwrapOr(option, default) == IF option = None THEN default ELSE option[1]

SortFields == {"Pid", "Uid", "CpuUsage"}

\* common.rs lines 124-153: Field::compare, for the fields of the model.
FieldCompare(field, a, b) ==
    CASE field = "Pid" -> CmpInt(a.pid, b.pid)
      [] field = "Uid" -> InfoCmp(a.uid, b.uid)
      [] field = "CpuUsage" ->
            UnwrapOr(InfoPartialCmp(a.cpu_usage, b.cpu_usage), "Equal")

\* Line 504: what the comparator answers when every key ties.
TieLessMutant == "Less"

TieOrdering == "Equal"

\* Lines 500-505: the first key that does not tie decides.
RECURSIVE CompareLastKeyMutant(_, _, _)
CompareLastKeyMutant(keys, a, b) ==
    IF keys = <<>> THEN "Equal"
    ELSE LET rest == CompareLastKeyMutant(Tail(keys), a, b)
         IN  IF rest # "Equal" THEN rest
             ELSE FieldCompare(Head(keys), a, b)

RECURSIVE Compare(_, _, _)
Compare(keys, a, b) ==
    IF keys = <<>> THEN TieOrdering
    ELSE IF FieldCompare(Head(keys), a, b) # "Equal"
    THEN FieldCompare(Head(keys), a, b)
    ELSE Compare(Tail(keys), a, b)

\* slice::sort_by on a short slice is an insertion sort: an element moves
\* left past the elements it is less than.
RECURSIVE InsertTail(_, _, _)
InsertTail(keys, sorted, x) ==
    IF sorted = <<>> \/ Compare(keys, x, sorted[Len(sorted)]) # "Less"
    THEN Append(sorted, x)
    ELSE Append(InsertTail(keys, SubSeq(sorted, 1, Len(sorted) - 1), x),
                sorted[Len(sorted)])

RECURSIVE SortBy(_, _)
SortBy(keys, v) ==
    IF v = <<>> THEN <<>>
    ELSE InsertTail(keys, SortBy(keys, SubSeq(v, 1, Len(v) - 1)), v[Len(v)])

SortPids == 1..MaxSortLen

SortRecords ==
    [pid : SortPids,
     uid : {InfoUnauthorized, InfoSome(0)},
     cpu_usage : {InfoSome(NaN), InfoSome(1), InfoSome(2)}]

\* The Vecs par_apply_filter(list_all()) can collect: every pid once.
CollectedSets ==
    {v \in UNION {[1..n -> SortRecords] : n \in 0..MaxSortLen} :
        \A i \in DOMAIN v, j \in DOMAIN v : i # j => v[i].pid # v[j].pid}

\* The key lists: every field at most once (a repeated key decides nothing).
SortKeyLists ==
    {keys \in UNION {[1..n -> SortFields] : n \in 0..Cardinality(SortFields)} :
        \A i \in DOMAIN keys, j \in DOMAIN keys : i # j => keys[i] # keys[j]}

SortInit ==
    /\ sort \in SortKeyLists
    /\ collected = <<>>
    /\ processes_info = <<>>
    /\ spc = "args"

SortIdle ==
    /\ sort = <<>>
    /\ collected = <<>>
    /\ processes_info = <<>>
    /\ spc = "off"

\* Lines 495-508: collect the filtered records, sort them if there are keys.
sorted_processes_info ==
    /\ spc = "args"
    /\ \E v \in CollectedSets :
         /\ collected' = v
         /\ processes_info' = IF sort # <<>> THEN SortBy(sort, v) ELSE v
    /\ spc' = "sorted"
    /\ UNCHANGED <<sort, notSort>>

SortNext == sorted_processes_info

(***************************************************************************)
(* The per-process query (ffi/darwin.rs, ffi/linux.rs, cli.rs)             *)
(***************************************************************************)

CounterFields ==
    {"cpu_usage", "cpu_time", "mem_usage", "virtual_mem_size",
     "physical_mem_size", "controlling_tty", "start_time"}
InfoFields ==
    {"parent_pid", "uid", "username", "path", "cmd_line", "name"}
        \cup CounterFields

\* The payload of a Some is 1 (for an Option field: Some(Some(_))) or, for an
\* Option field, 0 (Some(None)).
Present == InfoSome(1)
PresentNone == InfoSome(0)

\* darwin.rs lines 139-154.
DarwinDefunctRecord ==
    [is_defunct |-> TRUE, info |-> [f \in InfoFields |-> InfoDefunct]]

\* darwin.rs lines 195-210.
DarwinUnauthorizedRecord(path, cmd_line) ==
    [is_defunct |-> FALSE,
     info |-> [f \in InfoFields |->
                 IF f \in CounterFields THEN InfoUnauthorized
                 ELSE IF f = "cmd_line" THEN cmd_line
                 ELSE IF f = "path" THEN path
                 ELSE Present]]


\* A running record whose controlling terminal is reported Defunct.
RunningRecordDefunctTtyMutant(path, cmd_line) ==
    [is_defunct |-> FALSE,
     info |-> [f \in InfoFields |->
                 IF f = "cmd_line" THEN cmd_line
                 ELSE IF f = "path" THEN path
                 ELSE IF f = "controlling_tty" THEN InfoDefunct
                 ELSE Present]]

\* darwin.rs lines 252-267, linux.rs lines 223-238, cli.rs lines 42-54.
RunningRecord(path, cmd_line) ==
    [is_defunct |-> FALSE,
     info |-> [f \in InfoFields |->
                 IF f = "cmd_line" THEN cmd_line
                 ELSE IF f = "path" THEN path
                 ELSE Present]]

\* linux.rs lines 193-210.
LinuxDefunctRecord ==
    [is_defunct |-> TRUE,
     info |-> [f \in InfoFields |->
                 IF f \in {"path", "cmd_line"} THEN InfoDefunct ELSE Present]]

NoRecord == [is_defunct |-> FALSE, info |-> <<>>]

NoResult == [kind |-> "none", errno |-> "", call |-> "", record |-> NoRecord]
OkResult(record) ==
    [kind |-> "Ok", errno |-> "", call |-> "", record |-> record]
ErrResult(errno, call) ==
    [kind |-> "Err", errno |-> errno, call |-> call, record |-> NoRecord]

\* The OS calls a permission can be missing for, and how the OS says so.
DeniableCalls ==
    IF backend = "linux" THEN {"path", "cmd_line"}
    ELSE IF backend = "darwin" THEN {"path", "cmd_line", "task_info"}
    ELSE {"path", "cmd_line"}

DenyErrnos(call) ==
    IF backend = "linux" THEN {"EACCES"}
    ELSE IF call = "cmd_line" THEN {"EINVAL", "EPERM"}
    ELSE {"EPERM"}

\* What an OS call about the process can answer in the current state.
OsOutcomes(call) ==
    IF pstate = "gone"
    THEN IF backend = "linux" THEN {"ESRCH", "ENOENT"} ELSE {"ESRCH"}
    ELSE IF pstate = "zombie" /\ call = "path" THEN {"ENOENT"}
    ELSE IF pstate = "zombie" /\ call = "cmd_line" THEN {"OkEmpty"}
    ELSE IF call \in denied THEN DenyErrnos(call)
    ELSE {"Ok"}

\* cli.rs lines 110-121: the wrapper turns every ESRCH into Defunct; the `?`
\* of darwin.rs and linux.rs hands the error to the caller.
Propagate(errno, call) ==
    IF backend = "cli" /\ errno = "ESRCH"
    THEN OkResult(DarwinDefunctRecord)
    ELSE ErrResult(errno, call)

\* The bookkeeping of an OS call's answer.
Observe(call, outcome) ==
    /\ esrch_seen' = (esrch_seen \/ outcome = "ESRCH")
    /\ denials' = IF call \in denied /\ outcome \in DenyErrnos(call)
                  THEN denials \cup {call} ELSE denials

Return(result) ==
    /\ qresult' = result
    /\ qpc' = "done"

QueryEnv == <<backend, pstate, denied, has_passwd>>

QueryInit ==
    /\ backend \in {"darwin", "linux", "cli"}
    /\ pstate \in (IF backend = "linux" THEN {"alive", "zombie"} ELSE {"alive"})
    /\ denied \in SUBSET DeniableCalls
    /\ has_passwd \in BOOLEAN
    /\ qpc = IF backend = "linux" THEN "status" ELSE "bsd_short_info"
    /\ qcmd = InfoDefunct
    /\ qpath = InfoDefunct
    /\ is_defunct = FALSE
    /\ esrch_seen = FALSE
    /\ denials = {}
    /\ qresult = NoResult

QueryIdle ==
    /\ backend = "none"
    /\ pstate = "gone"
    /\ denied = {}
    /\ has_passwd = FALSE
    /\ qpc = "off"
    /\ qcmd = InfoDefunct
    /\ qpath = InfoDefunct
    /\ is_defunct = FALSE
    /\ esrch_seen = FALSE
    /\ denials = {}
    /\ qresult = NoResult

\* The process exits while it is being queried; a linux process stays a
\* zombie until it is reaped.
ProcessExits ==
    /\ qpc \notin {"done", "off"}
    /\ \/ pstate = "alive" /\ pstate' = IF backend = "linux" THEN "zombie" ELSE "gone"
       \/ pstate = "zombie" /\ pstate' = "gone"
    /\ UNCHANGED <<backend, denied, has_passwd, qpc, qcmd, qpath, is_defunct,
                   esrch_seen, denials, qresult, notQuery>>

\* darwin.rs lines 135-159; cli.rs line 36.
BsdShortInfo ==
    /\ backend \in {"darwin", "cli"}
    /\ qpc = "bsd_short_info"
    /\ \E o \in OsOutcomes("bsd_short_info") :
         /\ Observe("bsd_short_info", o)
         /\ IF o = "Ok" THEN qpc' = "path" /\ UNCHANGED qresult
            ELSE IF backend = "darwin" /\ o = "ESRCH"
            THEN Return(OkResult(DarwinDefunctRecord))
            ELSE Return(Propagate(o, "bsd_short_info"))
    /\ UNCHANGED <<QueryEnv, qcmd, qpath, is_defunct, notQuery>>

\* darwin.rs lines 161-162 (and 90-102); cli.rs line 37.
ProcPidPath ==
    /\ backend \in {"darwin", "cli"}
    /\ qpc = "path"
    /\ \E o \in OsOutcomes("path") :
         /\ Observe("path", o)
         /\ IF o = "Ok"
            THEN qpath' = Present /\ qpc' = "username" /\ UNCHANGED qresult
            ELSE Return(Propagate(o, "path")) /\ UNCHANGED qpath
    /\ UNCHANGED <<QueryEnv, qcmd, is_defunct, notQuery>>

\* darwin.rs lines 163-165; cli.rs lines 38-39; linux.rs lines 162-210: the
\* user database lookup, and on linux the early return for a zombie.
Username ==
    /\ qpc = "username"
    /\ IF ~has_passwd THEN Return(ErrResult("ENOENT", "username"))
       ELSE IF backend = "linux" /\ is_defunct
       THEN Return(OkResult(LinuxDefunctRecord))
       ELSE /\ qpc' = IF backend = "linux" THEN "lpath" ELSE "cmd_line"
            /\ UNCHANGED qresult
    /\ UNCHANGED <<QueryEnv, qcmd, qpath, is_defunct, esrch_seen, denials,
                   notQuery>>

\* darwin.rs lines 166-174 with darwin/cmd_line.rs lines 11-36; cli.rs lines
\* 40-54 with ffi/cmd_line.rs lines 17-42.
CmdLineSysctl ==
    /\ backend \in {"darwin", "cli"}
    /\ qpc = "cmd_line"
    /\ \E o \in OsOutcomes("cmd_line") :
         /\ Observe("cmd_line", o)
         /\ IF o \in {"Ok", "EINVAL"}
            THEN LET cmd_line == IF o = "Ok" THEN Present ELSE InfoUnauthorized
                 IN  /\ qcmd' = cmd_line
                     /\ IF backend = "cli"
                        THEN Return(OkResult(RunningRecord(qpath, cmd_line)))
                        ELSE qpc' = "task_info" /\ UNCHANGED qresult
            ELSE Return(Propagate(o, "cmd_line")) /\ UNCHANGED qcmd
    /\ UNCHANGED <<QueryEnv, qpath, is_defunct, notQuery>>

\* darwin.rs lines 190-215.
TaskAllInfo ==
    /\ backend = "darwin"
    /\ qpc = "task_info"
    /\ \E o \in OsOutcomes("task_info") :
         /\ Observe("task_info", o)
         /\ IF o = "Ok" THEN qpc' = "threads" /\ UNCHANGED qresult
            ELSE IF o \in {"EPERM", "EACCES"}
            THEN Return(OkResult(DarwinUnauthorizedRecord(qpath, qcmd)))
            ELSE Return(Propagate(o, "task_info"))
    /\ UNCHANGED <<QueryEnv, qcmd, qpath, is_defunct, notQuery>>

\* darwin.rs lines 217-267: the per-thread cpu usage and the full record.
ThreadsAndFinish ==
    /\ backend = "darwin"
    /\ qpc = "threads"
    /\ \E o \in OsOutcomes("threads") :
         /\ Observe("threads", o)
         /\ IF o = "Ok" THEN Return(OkResult(RunningRecord(qpath, qcmd)))
            ELSE Return(Propagate(o, "threads"))
    /\ UNCHANGED <<QueryEnv, qcmd, qpath, is_defunct, notQuery>>

\* linux.rs lines 160-161 (and 90-133).
StatusRead ==
    /\ backend = "linux"
    /\ qpc = "status"
    /\ \E o \in OsOutcomes("status") :
         /\ Observe("status", o)
         /\ IF o = "Ok"
            THEN /\ is_defunct' = (pstate = "zombie")
                 /\ qpc' = "username"
                 /\ UNCHANGED qresult
            ELSE Return(Propagate(o, "status")) /\ UNCHANGED is_defunct
    /\ UNCHANGED <<QueryEnv, qcmd, qpath, notQuery>>

\* linux.rs line 212 (and 145-157).
ExeReadLink ==
    /\ backend = "linux"
    /\ qpc = "lpath"
    /\ \E o \in OsOutcomes("path") :
         /\ Observe("path", o)
         /\ IF o \in {"Ok", "EACCES", "EPERM", "ENOENT"}
            THEN /\ qpath' = IF o = "Ok" THEN Present
                             ELSE IF o = "ENOENT" THEN PresentNone
                             ELSE InfoUnauthorized
                 /\ qpc' = "lcmd_line"
                 /\ UNCHANGED qresult
            ELSE Return(Propagate(o, "path")) /\ UNCHANGED qpath
    /\ UNCHANGED <<QueryEnv, qcmd, is_defunct, notQuery>>

\* linux.rs lines 213-238 (and 135-143).
CmdLineRead ==
    /\ backend = "linux"
    /\ qpc = "lcmd_line"
    /\ \E o \in OsOutcomes("cmd_line") :
         /\ Observe("cmd_line", o)
         /\ IF o \in {"Ok", "OkEmpty"}
            THEN LET cmd_line == IF o = "Ok" THEN Present ELSE PresentNone
                 IN  /\ qcmd' = cmd_line
                     /\ Return(OkResult(RunningRecord(qpath, cmd_line)))
            ELSE Return(Propagate(o, "cmd_line")) /\ UNCHANGED qcmd
    /\ UNCHANGED <<QueryEnv, qpath, is_defunct, notQuery>>

QueryNext ==
    \/ ProcessExits
    \/ BsdShortInfo
    \/ ProcPidPath
    \/ Username
    \/ CmdLineSysctl
    \/ TaskAllInfo
    \/ ThreadsAndFinish
    \/ StatusRead
    \/ ExeReadLink
    \/ CmdLineRead

(***************************************************************************)
(* The parallel acquisition (process_info.rs)                              *)
(***************************************************************************)

MaxAcqPids == 2

\* The pids Pid::all_active listed, in the order of the Vec.
AcqPids == DOMAIN apc

\* What the closure of filter_map returned for a pid (lines 41-47).
NoPair == [pid |-> 0, uid |-> 0, username |-> <<>>]
Pending == [returned |-> "pending", pair |-> NoPair]
ReturnedNone == [returned |-> "None", pair |-> NoPair]
ReturnedSome(pair) == [returned |-> "Some", pair |-> pair]

\* The name the user database has for a uid.
NameOfUid(uid) == (CHOOSE a \in Accounts : a[1] = uid)[2]

AcqInit ==
    /\ \E n \in 1..MaxAcqPids :
         /\ aowner \in [1..n -> {a[1] : a \in Accounts}]
         /\ afate \in [1..n -> {"ok", "fail_early", "fail_late"}]
         /\ apc = [pid \in 1..n |-> "status"]
         /\ aname = [pid \in 1..n |-> <<>>]
         /\ aresult = [pid \in 1..n |-> Pending]
    /\ pwbuf = <<>>
    /\ acollected = None

AcqIdle ==
    /\ aowner = <<>>
    /\ afate = <<>>
    /\ apc = <<>>
    /\ aname = <<>>
    /\ aresult = <<>>
    /\ pwbuf = <<>>
    /\ acollected = None

\* process_info.rs lines 41-47 with the first OS call of pid.info()
\* (linux.rs line 160, darwin.rs line 135): a query that fails here is
\* reported and yields None.
AcqFirstCall(pid) ==
    /\ apc[pid] = "status"
    /\ IF afate[pid] = "fail_early"
       THEN /\ apc' = [apc EXCEPT ![pid] = "done"]
            /\ aresult' = [aresult EXCEPT ![pid] = ReturnedNone]
       ELSE /\ apc' = [apc EXCEPT ![pid] = "getpwuid"]
            /\ UNCHANGED aresult
    /\ UNCHANGED <<aowner, afate, pwbuf, aname, acollected, notAcq>>

\* unix.rs line 63: libc::getpwuid fills its static buffer and returns a
\* pointer to it.
AcqGetPwUid(pid) ==
    /\ apc[pid] = "getpwuid"
    /\ pwbuf' = NameOfUid(aowner[pid])
    /\ apc' = [apc EXCEPT ![pid] = "copy"]
    /\ UNCHANGED <<aowner, afate, aname, aresult, acollected, notAcq>>

\* unix.rs line 64: the name is copied out of the buffer; the worker of
\* another pid may have called getpwuid in between.
AcqCopyName(pid) ==
    /\ apc[pid] = "copy"
    /\ aname' = [aname EXCEPT ![pid] = pwbuf]
    /\ apc' = [apc EXCEPT ![pid] = "rest"]
    /\ UNCHANGED <<aowner, afate, pwbuf, aresult, acollected, notAcq>>

\* The rest of pid.info() and process_info.rs lines 41-47: Some((pid, info))
\* for Ok, a diagnostic and None for Err.
AcqFinish(pid) ==
    /\ apc[pid] = "rest"
    /\ aresult' = [aresult EXCEPT ![pid] =
                      IF afate[pid] = "ok"
                      THEN ReturnedSome([pid |-> pid, uid |-> aowner[pid],
                                         username |-> aname[pid]])
                      ELSE ReturnedNone]
    /\ apc' = [apc EXCEPT ![pid] = "done"]
    /\ UNCHANGED <<aowner, afate, pwbuf, aname, acollected, notAcq>>

\* The pairs of the pids up to n whose closure returned Some, in Vec order.
RECURSIVE CollectUpTo(_)
CollectUpTo(n) ==
    IF n = 0 THEN <<>>
    ELSE IF aresult[n].returned = "Some"
    THEN Append(CollectUpTo(n - 1), aresult[n].pair)
    ELSE CollectUpTo(n - 1)

\* The fan-in: collect() after every worker is done (common.rs line 498).
AcqCollect ==
    /\ acollected = None
    /\ \A pid \in AcqPids : apc[pid] = "done"
    /\ acollected' = Some(CollectUpTo(Len(apc)))
    /\ UNCHANGED <<aowner, afate, apc, pwbuf, aname, aresult, notAcq>>

AcqNext ==
    \/ \E pid \in AcqPids : AcqFirstCall(pid)
    \/ \E pid \in AcqPids : AcqGetPwUid(pid)
    \/ \E pid \in AcqPids : AcqCopyName(pid)
    \/ \E pid \in AcqPids : AcqFinish(pid)
    \/ AcqCollect

(***************************************************************************)
(* One cell of a bordered table (utils/table.rs 284-292, utils.rs 9-14)    *)
(***************************************************************************)

MaxCellChars == 3
MaxCellWidth == 4

\* The UTF-8 lengths a character of a value may have.
Utf8Lens == {1, 2, 3}

\* A String is the sequence of the UTF-8 lengths of its characters.
Strings == UNION {[1..n -> Utf8Lens] : n \in 0..MaxCellChars}

\* The byte offset at which the k-th character ends.
PrefixBytes(string, k) == SumSeq(SubSeq(string, 1, k))

\* str::is_char_boundary, as String::truncate asserts it.
is_char_boundary(string, index) ==
    \E k \in 0..Len(string) : PrefixBytes(string, k) = index

\* utils.rs 9-14.  `text` is what is left of the string, `ellipsis` says
\* whether the ellipsis was pushed after it.  String::truncate takes a byte
\* length and panics when it is not on a character boundary; a length beyond
\* the string's (the wrapped-around `0 - 1`) leaves the string as it is.
truncate_string(string, max_len, checks) ==
    IF CharCount(string) > max_len
    THEN IF max_len = 0
         THEN IF checks
              THEN [status |-> "panic", text |-> string, ellipsis |-> FALSE]
              ELSE [status |-> "ok", text |-> string, ellipsis |-> TRUE]
         ELSE IF is_char_boundary(string, max_len - 1)
         THEN [status |-> "ok",
               text |-> SubSeq(string, 1,
                          CHOOSE k \in 0..Len(string) :
                              PrefixBytes(string, k) = max_len - 1),
               ellipsis |-> TRUE]
         ELSE [status |-> "panic", text |-> string, ellipsis |-> FALSE]
    ELSE [status |-> "ok", text |-> string, ellipsis |-> FALSE]

\* table.rs 284-292: the value is truncated and written with `{value:width$}`,
\* which fills up to `width` characters and never cuts.
WriteCell(value, width, checks) ==
    LET t == truncate_string(value, width, checks)
        chars == CharCount(t.text) + (IF t.ellipsis THEN 1 ELSE 0)
    IN  [status |-> t.status, text |-> t.text, ellipsis |-> t.ellipsis,
         fill |-> Max(0, width - chars)]

NoCell == [status |-> "none", text |-> <<>>, ellipsis |-> FALSE, fill |-> 0]

CellInit ==
    /\ cvalue \in Strings
    /\ cwidth \in 0..MaxCellWidth
    /\ cchecks \in BOOLEAN
    /\ cell = NoCell
    /\ cpc = "value"

CellIdle ==
    /\ cvalue = <<>>
    /\ cwidth = 0
    /\ cchecks = FALSE
    /\ cell = NoCell
    /\ cpc = "off"

RenderCell ==
    /\ cpc = "value"
    /\ cell' = WriteCell(cvalue, cwidth, cchecks)
    /\ cpc' = "written"
    /\ UNCHANGED <<cvalue, cwidth, cchecks, notCell>>

CellNext == RenderCell

(***************************************************************************)
(* The width estimate of a column for a row (cli/common.rs 55-203,         *)
(* main.rs 289-320, utils/table.rs 171-181)                                *)
(***************************************************************************)

\* u32::ilog10 of a positive number.
RECURSIVE ilog10(_)
ilog10(n) == IF n < 10 THEN 0 ELSE 1 + ilog10(n \div 10)

\* `x.max(1).ilog10() as usize + 1`, the estimator of the numeric columns.
digits_estimate(n) == ilog10(Max(n, 1)) + 1

\* Display of a non-negative integer: its decimal digits, one byte each.
RECURSIVE to_string(_)
to_string(n) ==
    IF n < 10 THEN <<1>> ELSE Append(to_string(n \div 10), 1)

\* "-"
Dash == Ascii(1)

\* The columns: those of Field::to_column (cli/common.rs) and those of
\* list() in main.rs.
WidthColumns ==
    {[text |-> t, field |-> f] :
        t \in {"common", "main"}, f \in {"Pid", "ParentPid", "Username"}}

WidthPids == {1, 9, 10, 1234}
WidthParents == {None} \cup {Some(n) : n \in {0, 7, 10, 1234}}
WidthRows ==
    [pid : WidthPids, parent_pid : WidthParents,
     username : {None} \cup {Some(u) : u \in Strings \ {<<>>}}]

\* The value renderer (calc_value) of the column.
calc_value(column, row) ==
    CASE column.field = "Pid" -> to_string(row.pid)
      [] column.field = "ParentPid" ->
            IF row.parent_pid = None THEN Dash
            ELSE to_string(row.parent_pid[1])
      [] column.field = "Username" ->
            IF row.username = None THEN Dash ELSE row.username[1]

\* The width estimator of the column.  cli/common.rs: the closure given to
\* calc_width, or else the `len()` of the value (lines 60-66).  main.rs: the
\* closure given to calc_width (both numeric columns are given the one of
\* the pid, lines 296 and 306), or else the `chars().count()` of the value
\* (utils/table.rs 175-179).
calc_width(column, row) ==
    IF column.text = "common"
    THEN CASE column.field = "Pid" -> digits_estimate(row.pid)
           [] column.field = "ParentPid" ->
                 IF row.parent_pid = None THEN 1
                 ELSE digits_estimate(row.parent_pid[1])
           [] column.field = "Username" -> ByteLen(calc_value(column, row))
    ELSE CASE column.field = "Pid" -> digits_estimate(row.pid)
           [] column.field = "ParentPid" -> digits_estimate(row.pid)
           [] column.field = "Username" -> CharCount(calc_value(column, row))

NoColumn == [text |-> "", field |-> ""]
NoRow == [pid |-> 0, parent_pid |-> None, username |-> None]

WidthInit ==
    /\ wcolumn \in WidthColumns
    /\ wrow \in WidthRows
    /\ westimate = 0
    /\ wvalue = <<>>
    /\ wpc = "row"

WidthIdle ==
    /\ wcolumn = NoColumn
    /\ wrow = NoRow
    /\ westimate = 0
    /\ wvalue = <<>>
    /\ wpc = "off"

\* One step of the measuring loop and the rendering of the same cell.
MeasureRow ==
    /\ wpc = "row"
    /\ westimate' = calc_width(wcolumn, wrow)
    /\ wvalue' = calc_value(wcolumn, wrow)
    /\ wpc' = "measured"
    /\ UNCHANGED <<wcolumn, wrow, notWidth>>

WidthNext == MeasureRow

(***************************************************************************)
(* The order of the values of one field (info.rs 1-6, common.rs 124-153)   *)
(***************************************************************************)

\* The values of a field with an Ord payload, and of an f64 field.
OrdInfos == {InfoDefunct, InfoUnauthorized, InfoSome(1), InfoSome(2)}
FloatInfos == OrdInfos \cup {InfoSome(NaN)}

\* Field::compare on one field: Ord::cmp, or for the f64 fields
\* partial_cmp(..).unwrap_or(Equal) (common.rs 140-147).
InfoCompare(kind, a, b) ==
    IF kind = "Ord" THEN InfoCmp(a, b)
    ELSE UnwrapOr(InfoPartialCmp(a, b), "Equal")

OrderInit ==
    /\ okind \in {"Ord", "f64"}
    /\ oinfos \in [1..3 -> IF okind = "Ord" THEN OrdInfos ELSE FloatInfos]
    /\ ocmp = <<>>
    /\ opc = "values"

OrderIdle ==
    /\ okind = ""
    /\ oinfos = <<>>
    /\ ocmp = <<>>
    /\ opc = "off"

\* The comparator is asked about every pair, as a sort may.
CompareInfos ==
    /\ opc = "values"
    /\ ocmp' = [i \in 1..3 |-> [j \in 1..3 |->
                   InfoCompare(okind, oinfos[i], oinfos[j])]]
    /\ opc' = "compared"
    /\ UNCHANGED <<oinfos, okind, notOrder>>

OrderNext == CompareInfos

(***************************************************************************)
(* One node line of the tree printer (cli/tree.rs 59-109)                  *)
(***************************************************************************)

MaxDepth == 3
MaxTermWidth == 10

PrintPids == {1, 10, 1234}

\* Lines 70-79: the room left for the label, and the truncation of the
\* label to it.  The subtraction is on usize: below zero it panics, or wraps
\* around to a length no label reaches.
PrintLabel(depth, pid, label, width, checks) ==
    IF width = None
    THEN [status |-> "ok", text |-> label, ellipsis |-> FALSE]
    ELSE LET used == depth + 2 + 1 + digits_estimate(pid) + 1
         IN  IF width[1] < used
             THEN IF checks
                  THEN [status |-> "panic", text |-> label, ellipsis |-> FALSE]
                  ELSE [status |-> "ok", text |-> label, ellipsis |-> FALSE]
             ELSE truncate_string(label, width[1] - used, checks)

\* Line 109: "{borders}{border}{h_line} {pid} {name}".
PrintLine(depth, pid, label, width, checks) ==
    LET l == PrintLabel(depth, pid, label, width, checks)
        label_chars == CharCount(l.text) + (IF l.ellipsis THEN 1 ELSE 0)
    IN  [status |-> l.status,
         label_chars |-> label_chars,
         chars |-> depth + 1 + 1 + 1 + CharCount(to_string(pid)) + 1
                      + label_chars]

NoLine == [status |-> "none", label_chars |-> 0, chars |-> 0]

PrintInit ==
    /\ borders \in 0..MaxDepth
    /\ ppid \in PrintPids
    /\ name \in Strings
    /\ terminal_width \in {None} \cup {Some(w) : w \in 0..MaxTermWidth}
    /\ pchecks \in BOOLEAN
    /\ line = NoLine
    /\ ppc = "node"

PrintIdle ==
    /\ borders = 0
    /\ ppid = 0
    /\ name = <<>>
    /\ terminal_width = None
    /\ pchecks = FALSE
    /\ line = NoLine
    /\ ppc = "off"

\* One iteration of the loop of print(), up to the println!.
PrintNode ==
    /\ ppc = "node"
    /\ line' = PrintLine(borders, ppid, name, terminal_width, pchecks)
    /\ ppc' = "printed"
    /\ UNCHANGED <<borders, ppid, name, terminal_width, pchecks, notPrint>>

PrintNext == PrintNode

(***************************************************************************)
(* The /proc/<pid>/stat parser and the listing of all processes            *)
(* (ffi/linux.rs 90-133, process_info.rs 37-48)                            *)
(***************************************************************************)

\* ---- bounds of the stat model ----
MaxFields == 23        \* fields after the name in a drawn stat text

\* The pids of one run: the first has a regular stat text, the second a
\* drawn one.
StatPids == {1, 2}

\* A byte is "(" , ")" , " " , a digit "7", a letter ("R", "a", "x") or
\* "u", a byte that is not valid UTF-8.
StatHeads ==
    { <<"1", " ", "(", "a", ")">>,          \* pid (name)
      <<"1", " ", "(", "(", ")", ")">>,     \* a name with parentheses
      <<"1", " ", "a", ")">>,               \* no opening parenthesis
      <<"1", " ", "(", "a">>,               \* no closing parenthesis
      <<"1", " ", ")", "a", "(">> }         \* the parentheses swapped

StatTokens == { <<"x">>, <<>>, <<"u">>, <<"7", "7">> }

\* The regular fields: the state letter, then numbers.
RegularFields(n) ==
    [i \in 1..n |-> IF i = 1 THEN <<"R">> ELSE <<"7">>]

StatFields ==
    UNION { {RegularFields(n)} \cup
            { [RegularFields(n) EXCEPT ![k] = t] :
                  k \in 1..n, t \in StatTokens } : n \in 0..MaxFields }

RECURSIVE JoinFields(_)
JoinFields(fs) ==
    IF fs = <<>> THEN <<>>
    ELSE IF Len(fs) = 1 THEN fs[1]
    ELSE fs[1] \o <<" ">> \o JoinFields(Tail(fs))

\* The texts a stat file may hold: a head alone, or a head, a space and
\* the fields separated by spaces.
StatTexts ==
    StatHeads \cup
    { h \o <<" ">> \o JoinFields(fs) : h \in StatHeads, fs \in StatFields }

RegularStat ==
    <<"1", " ", "(", "a", ")", " ">> \o JoinFields(RegularFields(MaxFields))

\* iter().position(|b| *b == byte), as a 1-based index; 0 for None.
Position(bytes, byte) ==
    IF \E i \in DOMAIN bytes : bytes[i] = byte
    THEN CHOOSE i \in DOMAIN bytes :
             /\ bytes[i] = byte
             /\ \A j \in 1..(i - 1) : bytes[j] # byte
    ELSE 0

\* iter().rev().position(..), as the 1-based index from the front.
RPosition(bytes, byte) ==
    IF \E i \in DOMAIN bytes : bytes[i] = byte
    THEN CHOOSE i \in DOMAIN bytes :
             /\ bytes[i] = byte
             /\ \A j \in (i + 1)..Len(bytes) : bytes[j] # byte
    ELSE 0

\* slice::split(|b| *b == b' '): an empty slice yields one empty piece.
RECURSIVE SplitSpaces(_)
SplitSpaces(bytes) ==
    LET i == Position(bytes, " ")
    IN  IF i = 0 THEN <<bytes>>
        ELSE <<SubSeq(bytes, 1, i - 1)>>
                 \o SplitSpaces(SubSeq(bytes, i + 1, Len(bytes)))

\* str::from_utf8(b).is_ok()
IsUtf8(bytes) ==
    \A i \in DOMAIN bytes : bytes[i] # "u"

\* str::parse::<integer>().is_ok(): digits only, at least one.
ParsesAsInt(bytes) ==
    /\ bytes # <<>>
    /\ \A i \in DOMAIN bytes : bytes[i] = "7"

\* The 0-based indices of the fields parsed as numbers, in the order of
\* the struct expression.
ParsedFields == <<1, 4, 11, 12, 19, 20, 21>>

\* The closure building Status: each field is indexed (an index past the
\* end panics), then parsed (a failure returns the error).
RECURSIVE ParseFrom(_,_)
ParseFrom(fields, n) ==
    IF n > Len(ParsedFields) THEN "ok"
    ELSE IF ParsedFields[n] + 1 > Len(fields) THEN "panic"
    ELSE IF ~ParsesAsInt(fields[ParsedFields[n] + 1]) THEN "err"
    ELSE ParseFrom(fields, n + 1)

\* Pid::status on the bytes read from the stat file: "ok", "err" (an
\* io::Error of kind InvalidData) or "panic".
status(bytes) ==
    LET open  == Position(bytes, "(")
        close == RPosition(bytes, ")")
    IN  IF open = 0 \/ close = 0 THEN "err"
        \* &bytes[name_start..name_end]
        ELSE IF open > close - 1 THEN "panic"
        \* bytes[name_end + 2..]
        ELSE IF close + 1 > Len(bytes) THEN "panic"
        ELSE LET fields == SplitSpaces(SubSeq(bytes, close + 2, Len(bytes)))
             IN  IF \E i \in DOMAIN fields : ~IsUtf8(fields[i]) THEN "panic"
                 \* fields[0].as_bytes()[0]
                 ELSE IF fields[1] = <<>> THEN "panic"
                 ELSE ParseFrom(fields, 1)

StatInit ==
    /\ stat \in [StatPids -> StatTexts \cup {RegularStat}]
    /\ stat[1] = RegularStat
    /\ squeried = {}
    /\ slisted = {}
    /\ sdiagnosed = {}
    /\ saborted = FALSE
    /\ statpc = "listing"

StatIdle ==
    /\ stat = <<>>
    /\ squeried = {}
    /\ slisted = {}
    /\ sdiagnosed = {}
    /\ saborted = FALSE
    /\ statpc = "off"

\* list_all's closure for one pid, in any order of the pids: Ok is kept,
\* Err is reported and dropped, a panic unwinds out of list_all.
QueryStat(pid) ==
    /\ statpc = "listing"
    /\ ~saborted
    /\ pid \notin squeried
    /\ squeried' = squeried \cup {pid}
    /\ LET result == status(stat[pid])
       IN  /\ slisted' = IF result = "ok" THEN slisted \cup {pid}
                         ELSE slisted
           /\ sdiagnosed' = IF result = "err" THEN sdiagnosed \cup {pid}
                            ELSE sdiagnosed
           /\ saborted' = (result = "panic")
    /\ UNCHANGED <<stat, statpc>>
    /\ UNCHANGED notStat

StatNext ==
    \/ \E pid \in StatPids : QueryStat(pid)

(***************************************************************************)
(* Repeated builds on the same column objects (utils/table.rs 150-312,     *)
(* cli/watch.rs 19-32)                                                     *)
(***************************************************************************)

\* ---- bounds of the repeated builds ----
MaxPasses == 2         \* builds on the same column objects
MaxRerenderCols == 2   \* columns of a repeatedly built table

\* build_bordered as a whole: the widths are measured from the widths the
\* column objects hold, then fitted and rendered.
Build(cols, data, max_width, checks) ==
    FitAndRender(MeasureWidths(cols, data), max_width, checks)

RerenderColumnSets == {cols \in ColumnSets : Len(cols) <= MaxRerenderCols}

\* The terminal is unknown, narrower than the table or at least as wide.
RerenderTargets == {None, Some(12), Some(16), Some(MaxTarget)}

RerenderInit ==
    /\ rtemplate \in RerenderColumnSets
    /\ rcolumns = rtemplate
    /\ rchecks \in BOOLEAN
    /\ routput = NoOutput
    /\ rfresh = NoOutput
    /\ rpasses = 0

RerenderIdle ==
    /\ rtemplate = <<>>
    /\ rcolumns = <<>>
    /\ rchecks = FALSE
    /\ routput = NoOutput
    /\ rfresh = NoOutput
    /\ rpasses = 0

\* One build(&mut columns, data, max_width) of a loop that keeps the column
\* objects, with the data and terminal width of the moment; a panic of an
\* earlier build has ended the program.
RenderPass ==
    /\ rtemplate # <<>>
    /\ rpasses < MaxPasses
    /\ routput.status \in {"none", "ok"}
    /\ \E data \in DataSets(Len(rcolumns)), max_width \in RerenderTargets :
         LET out == Build(rcolumns, data, max_width, rchecks)
         IN  /\ routput' = out
             /\ rcolumns' = out.columns
             /\ rfresh' = Build(rtemplate, data, max_width, rchecks)
    /\ rpasses' = rpasses + 1
    /\ UNCHANGED <<rtemplate, rchecks>>
    /\ UNCHANGED notRerender

RerenderNext == RenderPass

(***************************************************************************)
(* The watch loop (cli/watch.rs 19-32, cli/common.rs 495-508)              *)
(***************************************************************************)

\* ---- bounds of the watch model ----
MaxWatchPids == 2      \* pids the system may run
MaxPolls == 3          \* iterations of the loop

WatchPids == 1..MaxWatchPids

\* The records a poll acquires: one per running pid, marked with the poll
\* that acquired it.
Acquire(pids, poll) == {[pid |-> pid, poll |-> poll] : pid \in pids}

\* A poll that kept the records of the iteration before.
PollAppendMutant(previous, acquired) == previous \cup acquired

\* watch.rs line 25: `let processes_info = ..` binds a new vector in every
\* iteration; the one of the iteration before was dropped at its end.
PollResult(previous, acquired) == acquired

WatchInit ==
    /\ live \in SUBSET WatchPids
    /\ watch_info = {}
    /\ screen = {}
    /\ polls = 0
    /\ renders = 0
    /\ watchpc = "poll"

WatchIdle ==
    /\ live = {}
    /\ watch_info = {}
    /\ screen = {}
    /\ polls = 0
    /\ renders = 0
    /\ watchpc = "off"

\* A process starts or exits while the loop runs.
ProcessesChange ==
    /\ watchpc \notin {"off"}
    /\ \E pid \in WatchPids :
         live' = IF pid \in live THEN live \ {pid} ELSE live \cup {pid}
    /\ UNCHANGED <<watch_info, screen, polls, renders, watchpc, notWatch>>

\* Line 25: sorted_processes_info acquires the records of the moment.
Poll ==
    /\ watchpc = "poll"
    /\ polls < MaxPolls
    /\ polls' = polls + 1
    /\ watch_info' = PollResult(watch_info, Acquire(live, polls + 1))
    /\ watchpc' = "render"
    /\ UNCHANGED <<live, screen, renders, notWatch>>

\* Lines 26-29: the screen is cleared and the table of processes_info printed.
Render ==
    /\ watchpc = "render"
    /\ screen' = watch_info
    /\ renders' = renders + 1
    /\ watchpc' = "sleep"
    /\ UNCHANGED <<live, watch_info, polls, notWatch>>

\* Line 30: the loop blocks for the interval, then starts over.
Sleep ==
    /\ watchpc = "sleep"
    /\ watchpc' = "poll"
    /\ UNCHANGED <<live, watch_info, screen, polls, renders, notWatch>>

WatchNext ==
    \/ ProcessesChange
    \/ Poll
    \/ Render
    \/ Sleep

(***************************************************************************)
(* The shrink-to-fit step on wide columns (utils/table.rs 188-229)         *)
(***************************************************************************)

\* ---- bounds of the shrink model ----
MaxShrinkCols == 3     \* columns of the table
MaxShrinkTarget == 64  \* widest terminal

\* Measured widths and paddings of the columns: none, or the builder's.
ShrinkWidths == {10, 50}
ShrinkPaddings == {Some(0), None}

\* A column after the measuring loop of lines 171-186.
Measured(width, h_padding, can_shrink) ==
    [ColumnBuild(2, h_padding, can_shrink) EXCEPT !.width = width]

ShrinkColumnSets ==
    UNION {[1..n -> {Measured(w, p, s) :
                        w \in ShrinkWidths, p \in ShrinkPaddings,
                        s \in BOOLEAN}]
           : n \in 2..MaxShrinkCols}

NoFit ==
    [status |-> "none", shrunk |-> FALSE, blend_done |-> FALSE,
     columns |-> <<>>, blended |-> <<>>]

ShrinkInit ==
    /\ snatural \in ShrinkColumnSets
    /\ smax_width \in 0..MaxShrinkTarget
    /\ schecks \in BOOLEAN
    /\ sfit = NoFit
    /\ shrinkpc = "measured"

ShrinkIdle ==
    /\ snatural = <<>>
    /\ smax_width = 0
    /\ schecks = FALSE
    /\ sfit = NoFit
    /\ shrinkpc = "off"

\* Lines 188-229 on the measured columns.
Shrink ==
    /\ shrinkpc = "measured"
    /\ sfit' = ShrinkToFit(snatural, Some(smax_width), schecks)
    /\ shrinkpc' = "fitted"
    /\ UNCHANGED <<snatural, smax_width, schecks, notShrink>>

ShrinkNext == Shrink

(***************************************************************************)
(* list_all and the errors of the queries (process_info.rs 37-48,          *)
(* cli.rs 123-138)                                                         *)
(***************************************************************************)

\* ---- bounds of the listing model ----
MaxListPids == 3       \* pids the system lists

\* What a query returns: Ok or an io::Error of one of these kinds.
QueryResults == {"Ok", "PermissionDenied", "NotFound", "InvalidData"}

\* process_info.rs lines 41-47: every Err is reported.
DiagnosticsOfProcessInfo(result) ==
    IF result = "Ok" THEN 0 ELSE 1

\* cli.rs lines 128-137: an Err is reported unless its kind is
\* PermissionDenied.
DiagnosticsOfCli(result) ==
    IF result \in {"Ok", "PermissionDenied"} THEN 0 ELSE 1

ListInit ==
    /\ lsource \in {"process_info", "cli"}
    /\ \E n \in 1..MaxListPids : lquery \in [1..n -> QueryResults]
    /\ lasked = {}
    /\ lyielded = {}
    /\ lstderr = [pid \in DOMAIN lquery |-> 0]
    /\ listpc = "listing"

ListIdle ==
    /\ lsource = ""
    /\ lquery = <<>>
    /\ lasked = {}
    /\ lyielded = {}
    /\ lstderr = <<>>
    /\ listpc = "off"

\* The closure of filter_map for one pid: in the order of the pids in
\* cli.rs, on any worker in any order in process_info.rs.
ListOne(pid) ==
    /\ listpc = "listing"
    /\ pid \notin lasked
    /\ lsource = "cli" => \A other \in DOMAIN lquery \ lasked : pid <= other
    /\ lasked' = lasked \cup {pid}
    /\ lyielded' = IF lquery[pid] = "Ok" THEN lyielded \cup {pid} ELSE lyielded
    /\ lstderr' = [lstderr EXCEPT ![pid] =
                      @ + IF lsource = "cli"
                          THEN DiagnosticsOfCli(lquery[pid])
                          ELSE DiagnosticsOfProcessInfo(lquery[pid])]
    /\ UNCHANGED <<lsource, lquery, listpc>>
    /\ UNCHANGED notList

ListNext ==
    \/ \E pid \in DOMAIN lquery : ListOne(pid)

(***************************************************************************)
(* One table in the bordered and the plain style (utils/table.rs 104-148   *)
(* and 150-312)                                                            *)
(***************************************************************************)

\* `{text:width$}` and `{text:^width$}`: the text is filled up to width
\* characters and never cut.
FormatLen(chars, width) == Max(chars, width)

\* The characters of a written cell, without its fill.
CellLen(c) == CharCount(c.text) + (IF c.ellipsis THEN 1 ELSE 0)

\* Lines 278-296: the cells of the rows.
BorderedCells(cols, data, checks) ==
    [r \in DOMAIN data |-> [i \in DOMAIN cols |->
        WriteCell(data[r][i], cols[i].width, checks)]]

\* Lines 247-262: the header line.
HeaderLineLen(cols) ==
    SumSeq([i \in DOMAIN cols |->
               FormatLen(cols[i].name_len, cols[i].width)
                   + 2 * HPaddingOf(cols[i])])
        + (Len(cols) + 1)

\* Lines 278-296: the line of a row.
RowLineLen(cols, cells) ==
    SumSeq([i \in DOMAIN cols |->
               FormatLen(CellLen(cells[i]), cols[i].width)
                   + 2 * HPaddingOf(cols[i])])
        + (Len(cols) + 1)

NoRender == [status |-> "none", widths |-> <<>>, cells |-> <<>>,
             border |-> 0, header |-> 0, rows |-> <<>>]

\* build_bordered: the fit, then the five kinds of lines.  A panic of the
\* fit or of a cell's truncation ends the build.
BuildBordered(cols, data, max_width, checks) ==
    LET fit == Build(cols, data, max_width, checks)
        cells == BorderedCells(fit.columns, data, checks)
    IN  IF fit.status # "ok"
        THEN [NoRender EXCEPT !.status = fit.status]
        ELSE IF \E r \in DOMAIN data, i \in DOMAIN cols :
                    cells[r][i].status = "panic"
        THEN [NoRender EXCEPT !.status = "panic"]
        ELSE [status |-> "ok",
              widths |-> Widths(fit.columns),
              cells |-> cells,
              border |-> BorderLineLen(fit.columns),
              header |-> HeaderLineLen(fit.columns),
              rows |-> [r \in DOMAIN data |->
                           RowLineLen(fit.columns, cells[r])]]

\* Lines 109-121: only the columns before the last are measured.
PlainWidths(cols, data) ==
    [i \in DOMAIN cols |->
        IF i < Len(cols) THEN MaxOverRows(cols[i].width, data, i)
        ELSE cols[i].width]

\* Lines 135-145: a value is written whole, filled up to the width.
PlainCell(value, width) ==
    [status |-> "ok", text |-> value, ellipsis |-> FALSE,
     fill |-> Max(0, width - CharCount(value))]

\* build_plain: the target width is not handed to it.
BuildPlain(cols, data) ==
    LET widths == PlainWidths(cols, data)
        cells == [r \in DOMAIN data |-> [i \in DOMAIN cols |->
                     PlainCell(data[r][i], widths[i])]]
    IN  [status |-> "ok",
         widths |-> widths,
         cells |-> cells,
         border |-> 0,
         header |-> SumSeq([i \in DOMAIN cols |->
                       1 + FormatLen(cols[i].name_len, widths[i])]),
         rows |-> [r \in DOMAIN data |->
                      SumSeq([i \in DOMAIN cols |->
                         1 + FormatLen(CharCount(data[r][i]), widths[i])])]]

RenderInit ==
    /\ bcolumns \in RerenderColumnSets
    /\ bdata \in DataSets(Len(bcolumns))
    /\ bmax_width \in TargetWidths
    /\ bchecks \in BOOLEAN
    /\ bordered = NoRender
    /\ plain = NoRender
    /\ renderpc = "fresh"

RenderIdle ==
    /\ bcolumns = <<>>
    /\ bdata = <<>>
    /\ bmax_width = None
    /\ bchecks = FALSE
    /\ bordered = NoRender
    /\ plain = NoRender
    /\ renderpc = "off"

\* Builder::build (lines 314-327) in a bordered style and in Style::None,
\* each on freshly built columns.
RenderBoth ==
    /\ renderpc = "fresh"
    /\ bordered' = BuildBordered(bcolumns, bdata, bmax_width, bchecks)
    /\ plain' = BuildPlain(bcolumns, bdata)
    /\ renderpc' = "rendered"
    /\ UNCHANGED <<bcolumns, bdata, bmax_width, bchecks, notRender>>

RenderNext == RenderBoth

(***************************************************************************)
(* The parsers of the KERN_PROCARGS2 buffer (ffi/darwin/cmd_line.rs 39-64, *)
(* ffi/cmd_line.rs 45-82)                                                  *)
(***************************************************************************)

\* ---- bounds of the parser model ----
MaxArgsLen == 6        \* bytes of the buffer after the argc word
MaxArgc == 3           \* largest argc

\* A byte is NUL, one of two letters or, once the older parser has joined
\* two arguments, a space.
Nul == 0
Letters == {1, 2}
Space == 32

ArgsBuffers == UNION {[1..n -> {Nul} \cup Letters] : n \in 0..MaxArgsLen}

\* `while start < len && args_mem[start] != 0 { start += 1 }` and the same
\* loop for == 0; index 1 is the byte after the argc word.
RECURSIVE SkipPath(_, _)
SkipPath(mem, start) ==
    IF start <= Len(mem) /\ mem[start] # Nul THEN SkipPath(mem, start + 1)
    ELSE start

RECURSIVE SkipPadding(_, _)
SkipPadding(mem, start) ==
    IF start <= Len(mem) /\ mem[start] = Nul THEN SkipPadding(mem, start + 1)
    ELSE start

FirstArg(mem) == SkipPadding(mem, SkipPath(mem, 1))

\* darwin/cmd_line.rs lines 52-63: the `for cur in start..len` loop.
RECURSIVE CollectArgs(_, _, _, _, _)
CollectArgs(mem, argc, cur, cur_arg_start, args) ==
    IF cur > Len(mem) THEN args
    ELSE IF mem[cur] # Nul
    THEN CollectArgs(mem, argc, cur + 1, cur_arg_start, args)
    ELSE LET pushed == Append(args, SubSeq(mem, cur_arg_start, cur - 1))
         IN  IF Len(pushed) >= argc THEN pushed
             ELSE CollectArgs(mem, argc, cur + 1, cur + 1, pushed)

\* darwin/cmd_line.rs lines 39-64: Info::Some(None) is None, Info::Some(Some(
\* args)) is Some(args).
cmd_line(argc, mem) ==
    LET start == FirstArg(mem)
    IN  IF start = Len(mem) + 1 THEN None
        ELSE LET args == CollectArgs(mem, argc, start, start, <<>>)
             IN  IF args = <<>> THEN None ELSE Some(args)

\* ffi/cmd_line.rs lines 58-71: the loop that counts the arguments and turns
\* the NUL before the last one found into a space.
RECURSIVE JoinInPlace(_, _, _, _, _)
JoinInPlace(mem, argc, arg_i, cur, last_end) ==
    IF arg_i < argc /\ cur <= Len(mem)
    THEN IF mem[cur] = Nul
         THEN JoinInPlace(IF last_end # None
                          THEN [mem EXCEPT ![last_end[1]] = Space]
                          ELSE mem,
                          argc, arg_i + 1, cur + 1, Some(cur))
         ELSE JoinInPlace(mem, argc, arg_i, cur + 1, last_end)
    ELSE [mem |-> mem, last_end |-> last_end]

\* ffi/cmd_line.rs lines 45-82: CmdLine::None is None, CmdLine::Some(s) is
\* Some of the bytes of s before its terminator.
for_pid(argc, mem) ==
    LET start == FirstArg(mem)
    IN  IF start = Len(mem) + 1 THEN None
        ELSE LET joined == JoinInPlace(mem, argc, 0, start, None)
             IN  IF joined.last_end = None THEN None
                 ELSE Some(SubSeq(joined.mem, start, joined.last_end[1] - 1))

\* darwin.rs lines 167-174: cmd_line.join(" ").
RECURSIVE JoinArgs(_)
JoinArgs(args) ==
    IF args = <<>> THEN <<>>
    ELSE IF Len(args) = 1 THEN args[1]
    ELSE args[1] \o <<Space>> \o JoinArgs(Tail(args))

NoParse == <<"none">>

ArgsInit ==
    /\ arg_count \in 0..MaxArgc
    /\ args_mem \in ArgsBuffers
    /\ new_result = NoParse
    /\ old_result = NoParse
    /\ argspc = "filled"

ArgsIdle ==
    /\ arg_count = 0
    /\ args_mem = <<>>
    /\ new_result = NoParse
    /\ old_result = NoParse
    /\ argspc = "off"

\* Both parsers on the buffer the sysctl filled.
ParseArgs ==
    /\ argspc = "filled"
    /\ new_result' = cmd_line(arg_count, args_mem)
    /\ old_result' = for_pid(arg_count, args_mem)
    /\ argspc' = "parsed"
    /\ UNCHANGED <<arg_count, args_mem, notArgs>>

ArgsNext == ParseArgs

(***************************************************************************)
(* Specifications                                                          *)
(***************************************************************************)

TableStart ==
    TableInit /\ TreeIdle /\ FilterIdle /\ SortIdle /\ QueryIdle /\ AcqIdle /\ CellIdle /\ WidthIdle /\ OrderIdle /\ PrintIdle /\ StatIdle /\ RerenderIdle /\ WatchIdle /\ ShrinkIdle /\ ListIdle /\ RenderIdle /\ ArgsIdle

SpecTable ==
    TableStart /\ [][TableNext]_vars

TreeStart ==
    TreeInit /\ TableIdle /\ FilterIdle /\ SortIdle /\ QueryIdle /\ AcqIdle /\ CellIdle /\ WidthIdle /\ OrderIdle /\ PrintIdle /\ StatIdle /\ RerenderIdle /\ WatchIdle /\ ShrinkIdle /\ ListIdle /\ RenderIdle /\ ArgsIdle

SpecTree ==
    TreeStart /\ [][TreeNext]_vars

FilterStart ==
    FilterInit /\ TableIdle /\ TreeIdle /\ SortIdle /\ QueryIdle /\ AcqIdle /\ CellIdle /\ WidthIdle /\ OrderIdle /\ PrintIdle /\ StatIdle /\ RerenderIdle /\ WatchIdle /\ ShrinkIdle /\ ListIdle /\ RenderIdle /\ ArgsIdle

SpecFilter ==
    FilterStart /\ [][FilterNext]_vars

SortStart ==
    SortInit /\ TableIdle /\ TreeIdle /\ FilterIdle /\ QueryIdle /\ AcqIdle /\ CellIdle /\ WidthIdle /\ OrderIdle /\ PrintIdle /\ StatIdle /\ RerenderIdle /\ WatchIdle /\ ShrinkIdle /\ ListIdle /\ RenderIdle /\ ArgsIdle

SpecSort ==
    SortStart /\ [][SortNext]_vars

QueryStart ==
    QueryInit /\ TableIdle /\ TreeIdle /\ FilterIdle /\ SortIdle /\ AcqIdle /\ CellIdle /\ WidthIdle /\ OrderIdle /\ PrintIdle /\ StatIdle /\ RerenderIdle /\ WatchIdle /\ ShrinkIdle /\ ListIdle /\ RenderIdle /\ ArgsIdle

SpecQuery ==
    QueryStart /\ [][QueryNext]_vars

AcqStart ==
    AcqInit /\ TableIdle /\ TreeIdle /\ FilterIdle /\ SortIdle /\ QueryIdle /\ CellIdle /\ WidthIdle /\ OrderIdle /\ PrintIdle /\ StatIdle /\ RerenderIdle /\ WatchIdle /\ ShrinkIdle /\ ListIdle /\ RenderIdle /\ ArgsIdle

SpecAcq ==
    AcqStart /\ [][AcqNext]_vars

CellStart ==
    CellInit /\ TableIdle /\ TreeIdle /\ FilterIdle /\ SortIdle /\ QueryIdle /\ AcqIdle /\ WidthIdle /\ OrderIdle /\ PrintIdle /\ StatIdle /\ RerenderIdle /\ WatchIdle /\ ShrinkIdle /\ ListIdle /\ RenderIdle /\ ArgsIdle

SpecCell ==
    CellStart /\ [][CellNext]_vars

WidthStart ==
    WidthInit /\ TableIdle /\ TreeIdle /\ FilterIdle /\ SortIdle /\ QueryIdle /\ AcqIdle /\ CellIdle /\ OrderIdle /\ PrintIdle /\ StatIdle /\ RerenderIdle /\ WatchIdle /\ ShrinkIdle /\ ListIdle /\ RenderIdle /\ ArgsIdle

SpecWidth ==
    WidthStart /\ [][WidthNext]_vars

OrderStart ==
    OrderInit /\ TableIdle /\ TreeIdle /\ FilterIdle /\ SortIdle /\ QueryIdle /\ AcqIdle /\ CellIdle /\ WidthIdle /\ PrintIdle /\ StatIdle /\ RerenderIdle /\ WatchIdle /\ ShrinkIdle /\ ListIdle /\ RenderIdle /\ ArgsIdle

SpecOrder ==
    OrderStart /\ [][OrderNext]_vars

PrintStart ==
    PrintInit /\ TableIdle /\ TreeIdle /\ FilterIdle /\ SortIdle /\ QueryIdle /\ AcqIdle /\ CellIdle /\ WidthIdle /\ OrderIdle /\ StatIdle /\ RerenderIdle /\ WatchIdle /\ ShrinkIdle /\ ListIdle /\ RenderIdle /\ ArgsIdle

SpecPrint ==
    PrintStart /\ [][PrintNext]_vars

StatStart ==
    StatInit /\ TableIdle /\ TreeIdle /\ FilterIdle /\ SortIdle /\ QueryIdle /\ AcqIdle /\ CellIdle /\ WidthIdle /\ OrderIdle /\ PrintIdle /\ RerenderIdle /\ WatchIdle /\ ShrinkIdle /\ ListIdle /\ RenderIdle /\ ArgsIdle

SpecStat ==
    StatStart /\ [][StatNext]_vars

RerenderStart ==
    RerenderInit /\ TableIdle /\ TreeIdle /\ FilterIdle /\ SortIdle /\ QueryIdle /\ AcqIdle /\ CellIdle /\ WidthIdle /\ OrderIdle /\ PrintIdle /\ StatIdle /\ WatchIdle /\ ShrinkIdle /\ ListIdle /\ RenderIdle /\ ArgsIdle

SpecRerender ==
    RerenderStart /\ [][RerenderNext]_vars

WatchStart ==
    WatchInit /\ TableIdle /\ TreeIdle /\ FilterIdle /\ SortIdle /\ QueryIdle /\ AcqIdle /\ CellIdle /\ WidthIdle /\ OrderIdle /\ PrintIdle /\ StatIdle /\ RerenderIdle /\ ShrinkIdle /\ ListIdle /\ RenderIdle /\ ArgsIdle

SpecWatch ==
    WatchStart /\ [][WatchNext]_vars

ShrinkStart ==
    ShrinkInit /\ TableIdle /\ TreeIdle /\ FilterIdle /\ SortIdle /\ QueryIdle /\ AcqIdle /\ CellIdle /\ WidthIdle /\ OrderIdle /\ PrintIdle /\ StatIdle /\ RerenderIdle /\ WatchIdle /\ ListIdle /\ RenderIdle /\ ArgsIdle

SpecShrink ==
    ShrinkStart /\ [][ShrinkNext]_vars

ListStart ==
    ListInit /\ TableIdle /\ TreeIdle /\ FilterIdle /\ SortIdle /\ QueryIdle /\ AcqIdle /\ CellIdle /\ WidthIdle /\ OrderIdle /\ PrintIdle /\ StatIdle /\ RerenderIdle /\ WatchIdle /\ ShrinkIdle /\ RenderIdle /\ ArgsIdle

SpecList ==
    ListStart /\ [][ListNext]_vars

RenderStart ==
    RenderInit /\ TableIdle /\ TreeIdle /\ FilterIdle /\ SortIdle /\ QueryIdle /\ AcqIdle /\ CellIdle /\ WidthIdle /\ OrderIdle /\ PrintIdle /\ StatIdle /\ RerenderIdle /\ WatchIdle /\ ShrinkIdle /\ ListIdle /\ ArgsIdle

SpecRender ==
    RenderStart /\ [][RenderNext]_vars

ArgsStart ==
    ArgsInit /\ TableIdle /\ TreeIdle /\ FilterIdle /\ SortIdle /\ QueryIdle /\ AcqIdle /\ CellIdle /\ WidthIdle /\ OrderIdle /\ PrintIdle /\ StatIdle /\ RerenderIdle /\ WatchIdle /\ ShrinkIdle /\ ListIdle /\ RenderIdle

SpecArgs ==
    ArgsStart /\ [][ArgsNext]_vars

(***************************************************************************)
(* Claims about the table renderer                                         *)
(***************************************************************************)

\* The target of the rendered table, where there is one.
Target == output.max_width[1]
Excess == total_width(output.natural) - Target

\* A table was rendered that had to be fitted to a target at least as wide
\* as everything that cannot shrink.
FitRequested ==
    /\ tpc = "built"
    /\ output.max_width # None
    /\ total_width(output.natural) >= Target
    /\ Target >= non_shrinkable_width(output.natural)

\* C1: for every column set, rows and target width that is at least the
\* non-shrinkable width, the table is rendered and its line length after the
\* shrink and the redistribution of the slack is exactly the target width.
C1_LineLenIsTarget ==
    FitRequested => (output.status = "ok" /\ output.line_len = Target)

\* C10 (as amended): the blended width of every shrinkable column lies
\* between the proportional result and the equal split, and its distance from
\* the proportional result is 3*excess/(4*total) of the gap between the two,
\* rounded up: it is the proportional result when the excess is zero and moves
\* toward the equal split as the excess grows.
C10_BlendTowardEqualAsExcessGrows ==
    (tpc = "built" /\ output.blend_done) =>
        \A i \in DOMAIN output.natural :
            output.natural[i].can_shrink =>
                LET sc == scaled(output.natural, Target, i)
                    eq == equal(output.natural, Target)
                    b == output.blended[i].width
                IN  /\ Min(sc, eq) <= b
                    /\ b <= Max(sc, eq)
                    /\ Abs(b - sc) =
                         CeilDiv(3 * Excess * Abs(sc - eq),
                                 4 * total_width(output.natural))

\* C10 witness: a column whose blended width is strictly between the two
\* results, with a positive excess.
C10_Witness ==
    /\ tpc = "built"
    /\ output.blend_done
    /\ Excess > 0
    /\ \E i \in DOMAIN output.natural :
            /\ output.natural[i].can_shrink
            /\ output.blended[i].width # scaled(output.natural, Target, i)
            /\ output.blended[i].width # equal(output.natural, Target)

\* C10 as stated: the blend is at least as close to the proportional result
\* as to the equal split when the excess is large (at least half the total
\* width), and at least as close to the equal split when it is small.
C10_Original ==
    (tpc = "built" /\ output.blend_done) =>
        \A i \in DOMAIN output.natural :
            output.natural[i].can_shrink =>
                LET sc == scaled(output.natural, Target, i)
                    eq == equal(output.natural, Target)
                    b == output.blended[i].width
                IN  IF 2 * Excess >= total_width(output.natural)
                    THEN Abs(b - sc) <= Abs(b - eq)
                    ELSE Abs(b - eq) <= Abs(b - sc)

\* C11: the shrink-to-fit pass leaves every non-shrinkable column at its
\* natural width, through the blended pass and the redistribution of the
\* slack.
C11_OnlyShrinkableChange ==
    (tpc = "built" /\ output.shrunk /\ output.status = "ok") =>
        \A i \in DOMAIN output.natural :
            ~output.natural[i].can_shrink =>
                /\ output.blended[i].width = output.natural[i].width
                /\ output.columns[i].width = output.natural[i].width

(***************************************************************************)
(* Claims about the tree builder                                           *)
(***************************************************************************)

TreePids == {path[Len(path)] : path \in root}

RECURSIVE AncestorClosure(_)
\* The pids reachable from S by parent links that resolve in the scope.
AncestorClosure(S) ==
    LET up == {procs[p].parent_pid :
                  p \in {q \in S : ~procs[q].defunct}}
        S2 == S \cup (up \cap DOMAIN full_processes_info)
    IN  IF S2 = S THEN S ELSE AncestorClosure(S2)

\* C2: in both ancestor-resolution scopes the pids of the returned tree are
\* exactly the pids reachable by walking parent links upward from the
\* filtered records, and every pid is at exactly one node of the tree.
C2_TreePidsAreReachableOnce ==
    trpc = "done" =>
        /\ TreePids = AncestorClosure(passing)
        /\ passing \subseteq TreePids
        /\ \A p1 \in root, p2 \in root :
              p1[Len(p1)] = p2[Len(p2)] => p1 = p2
        /\ \A path \in root :
              Len(path) > 1 => SubSeq(path, 1, Len(path) - 1) \in root

\* C2 witness: a returned tree three levels deep that holds an ancestor the
\* filter had rejected.
C2_Witness ==
    /\ trpc = "done"
    /\ include_ancestors
    /\ TreePids # passing
    /\ \E path \in root : Len(path) = 3

\* C6: every ancestor walk ends, and it never has more elements than the
\* record set used for resolution has records, cycles included.
C6_WalkBoundedByRecordSet ==
    Len(cur_path) <= Cardinality(DOMAIN full_processes_info)

\* The pids parents are resolved among: all records when include-ancestors
\* is requested, the filtered records otherwise.
ResolutionSet == IF include_ancestors THEN DOMAIN procs ELSE passing

\* The parent link of a displayed record resolves.
HasResolvedParent(pid) ==
    /\ ~procs[pid].defunct
    /\ procs[pid].parent_pid \in ResolutionSet

\* C14: in the returned tree every nested node is directly under the node of
\* its record's parent pid, and the top-level nodes are exactly the displayed
\* records that are defunct or whose parent pid is not in the resolution
\* set; so without include-ancestors a record whose parent was filtered out
\* is a root, and with include-ancestors that parent is displayed.
C14_NodesUnderTheirParent ==
    trpc = "done" =>
        /\ \A path \in root :
              LET pid == path[Len(path)]
              IN  IF Len(path) > 1
                  THEN /\ HasResolvedParent(pid)
                       /\ procs[pid].parent_pid = path[Len(path) - 1]
                  ELSE ~HasResolvedParent(pid)
        /\ \A pid \in passing :
              (~procs[pid].defunct
                 /\ procs[pid].parent_pid \in DOMAIN procs \ passing) =>
                    IF include_ancestors
                    THEN procs[pid].parent_pid \in TreePids
                    ELSE <<pid>> \in root

\* C14 witness: without include-ancestors, a returned tree in which a record
\* whose parent was filtered out is a root and has a child under it.
C14_Witness ==
    /\ trpc = "done"
    /\ ~include_ancestors
    /\ \E path \in root :
          /\ Len(path) = 2
          /\ ~procs[path[1]].defunct
          /\ procs[path[1]].parent_pid \in DOMAIN procs \ passing

(***************************************************************************)
(* Claims about the filter                                                 *)
(***************************************************************************)

\* C3: with a non-empty owner allow-list and nothing else restricting, a
\* running record is accepted iff its uid is one of the listed uids or its
\* username is one of the listed usernames.
C3_OwnerListedByUidOrName ==
    (/\ fpc = "filtered"
     /\ fargs.user_filter # None
     /\ filter.regex = None
     /\ filter.include_sip) =>
        \A i \in DOMAIN frecords :
            ~frecords[i].defunct =>
                (frecords[i] \in SeqRange(accepted)
                   <=> \/ frecords[i].uid \in SeqRange(filter.user_ids)
                       \/ frecords[i].username \in SeqRange(filter.usernames))

\* C7 (as amended): with no regex, no owner allow-list and both inclusion
\* switches on, the filter accepts every record.
C7_IdentityWhenAllIncluded ==
    (/\ fpc = "filtered"
     /\ fargs.regex = None
     /\ fargs.user_filter = None
     /\ fargs.include_defunct = Some(TRUE)
     /\ fargs.include_sip = Some(TRUE)) => accepted = frecords

\* C7 witness: such a filter let a defunct or a SIP-protected record through.
C7_Witness ==
    /\ fpc = "filtered"
    /\ fargs.regex = None
    /\ fargs.user_filter = None
    /\ fargs.include_defunct = Some(TRUE)
    /\ fargs.include_sip = Some(TRUE)
    /\ \E i \in DOMAIN accepted :
          accepted[i].defunct \/ is_sip_protected(accepted[i])

\* C7 as stated: with every criterion left unset the filter accepts every
\* record.
C7_Original ==
    (/\ fpc = "filtered"
     /\ fargs.regex = None
     /\ fargs.user_filter = None
     /\ fargs.include_defunct = None
     /\ fargs.include_sip = None) => accepted = frecords

\* The text a record shows in its command-line column.
RenderedCmdLine(info) ==
    CASE info.cmd_line.kind = "None" -> StrUnknown
      [] info.cmd_line.kind = "Unauthorized" -> StrUnauthorized
      [] info.cmd_line.kind = "Some" -> info.cmd_line.value

\* The text predicate as the claim states it.
TextPredicate(info) ==
    IF filter.regex = None THEN TRUE
    ELSE LET regex == filter.regex[1]
             hit == IF info.defunct THEN StrDefunct \in regex
                    ELSE \/ info.path \in regex
                         \/ RenderedCmdLine(info) \in regex
         IN  hit # filter.invert_regex

\* C15: where the owner and inclusion criteria let every record through, a
\* record is accepted iff the text predicate holds: with a regex set, (the
\* regex matches the path or the rendered command line; for a defunct record
\* the placeholder "<defunct>") differs from the invert flag; with no regex
\* set it holds whatever the invert flag.
C15_TextPredicate ==
    (/\ fpc = "filtered"
     /\ fargs.user_filter = None
     /\ filter.include_defunct
     /\ filter.include_sip) =>
        \A i \in DOMAIN frecords :
            frecords[i] \in SeqRange(accepted) <=> TextPredicate(frecords[i])

\* C15 witness: a running record accepted because the regex matches its
\* command line though not its path.
C15_Witness ==
    /\ fpc = "filtered"
    /\ fargs.user_filter = None
    /\ filter.include_defunct
    /\ filter.include_sip
    /\ filter.regex # None
    /\ ~filter.invert_regex
    /\ \E i \in DOMAIN accepted :
          /\ ~accepted[i].defunct
          /\ accepted[i].path \notin filter.regex[1]
          /\ RenderedCmdLine(accepted[i]) \in filter.regex[1]

\* C16: with a non-empty owner allow-list no defunct record (the record
\* whose owner is not known) is accepted, whatever the other criteria; and
\* an allow-list of one owner with defunct inclusion off and nothing else
\* excluding accepts exactly the running records of that owner.
C16_UnknownOwnerRejected ==
    (fpc = "filtered" /\ fargs.user_filter # None) =>
        /\ \A i \in DOMAIN accepted : ~accepted[i].defunct
        /\ (/\ Len(fargs.user_filter[1]) = 1
            /\ filter.regex = None
            /\ ~filter.include_defunct
            /\ filter.include_sip) =>
              \A i \in DOMAIN frecords :
                  frecords[i] \in SeqRange(accepted) <=>
                      /\ ~frecords[i].defunct
                      /\ \/ frecords[i].uid \in SeqRange(filter.user_ids)
                         \/ frecords[i].username \in SeqRange(filter.usernames)

\* C16 witness: a defunct record rejected under a non-empty allow-list
\* though defunct records are included.
C16_Witness ==
    /\ fpc = "filtered"
    /\ fargs.user_filter # None
    /\ filter.include_defunct
    /\ filter.regex = None
    /\ \E i \in DOMAIN frecords : frecords[i].defunct
    /\ accepted = <<>>

(***************************************************************************)
(* Claims about the sort engine                                            *)
(***************************************************************************)

\* The position of a record in a Vec that holds it once.
IndexOf(v, x) == CHOOSE i \in DOMAIN v : v[i] = x

DifferingKeys(keys, a, b) ==
    {i \in DOMAIN keys : FieldCompare(keys[i], a, b) # "Equal"}

\* The answer of the leftmost key on which the records do not tie.
FirstDiffering(keys, a, b) ==
    LET D == DifferingKeys(keys, a, b)
    IN  IF D = {} THEN "Equal"
        ELSE FieldCompare(keys[CHOOSE i \in D : \A j \in D : i <= j], a, b)

\* C17: for every two collected records the comparator of the sort answers
\* what the leftmost key on which they differ answers, and Equal only if
\* every key ties; and the sorted Vec has no neighbours which that answer
\* puts the other way round.
C17_FirstDifferingKeyDecides ==
    spc = "sorted" =>
        /\ \A i \in DOMAIN collected, j \in DOMAIN collected :
              Compare(sort, collected[i], collected[j])
                 = FirstDiffering(sort, collected[i], collected[j])
        /\ sort # <<>> =>
              \A i \in 1..(Len(processes_info) - 1) :
                  FirstDiffering(sort, processes_info[i], processes_info[i + 1])
                     # "Greater"

\* C17 witness: two records that tie on the first key, differ on the second
\* and would be ordered the other way by the third, sorted by the second.
C17_Witness ==
    /\ spc = "sorted"
    /\ Len(sort) = 3
    /\ \E i \in DOMAIN processes_info, j \in DOMAIN processes_info :
          /\ i < j
          /\ FieldCompare(sort[1], processes_info[i], processes_info[j]) = "Equal"
          /\ FieldCompare(sort[2], processes_info[i], processes_info[j]) = "Less"
          /\ FieldCompare(sort[3], processes_info[i], processes_info[j]) = "Greater"

(***************************************************************************)
(* Claims about the per-process query                                      *)
(***************************************************************************)

\* C5: a query during which an OS call reported "no such process" returns a
\* defunct record, whichever call it was; it returns no error.
C5_VanishedGivesDefunctRecord ==
    (qpc = "done" /\ esrch_seen) =>
        (qresult.kind = "Ok" /\ qresult.record.is_defunct)

\* The field of the record an OS call fills.
FieldsOf(call) ==
    IF call = "task_info" THEN CounterFields ELSE {call}

\* C8: a query returns no error that comes from a call the OS denied, and
\* when nothing but denials went wrong it returns a record in which the
\* fields of the denied calls are Unauthorized and pid, owner and every other
\* field that was read are present.
C8_DenialIsPerField ==
    qpc = "done" =>
        /\ qresult.kind = "Err" => qresult.call \notin denials
        /\ (qresult.kind = "Ok" /\ ~qresult.record.is_defunct) =>
              \A call \in denials : \A f \in FieldsOf(call) :
                  qresult.record.info[f] = InfoUnauthorized

(***************************************************************************)
(* Claims about the parallel acquisition                                   *)
(***************************************************************************)

\* C9: under every interleaving the collected sequence has exactly one pair
\* for each listed pid whose query succeeded and none for a failed one, and
\* every pair is the record of its own pid, whatever happened to the queries
\* of the other pids.
C9_OnePairPerSucceededPid ==
    acollected # None =>
        LET pairs == acollected[1]
        IN  /\ {pairs[i].pid : i \in DOMAIN pairs}
                  = {pid \in AcqPids : afate[pid] = "ok"}
            /\ \A i \in DOMAIN pairs, j \in DOMAIN pairs :
                  i < j => pairs[i].pid < pairs[j].pid
            /\ \A i \in DOMAIN pairs :
                  /\ pairs[i].uid = aowner[pairs[i].pid]
                  /\ pairs[i].username = NameOfUid(aowner[pairs[i].pid])

(***************************************************************************)
(* Claims about one cell of a bordered table                               *)
(***************************************************************************)

\* The characters a written cell occupies between its paddings.
CellChars == CharCount(cell.text) + (IF cell.ellipsis THEN 1 ELSE 0) + cell.fill

\* C12: every cell is written, occupies exactly `width` characters, and a
\* value with more characters than the width is written as its first
\* width-1 characters followed by one ellipsis, for multi-byte values as
\* well as for ASCII values.
C12_CellTruncatedToWidth ==
    cpc = "written" =>
        /\ cell.status = "ok"
        /\ CellChars = cwidth
        /\ CharCount(cvalue) > cwidth =>
              /\ cell.ellipsis
              /\ cell.text = SubSeq(cvalue, 1, cwidth - 1)

(***************************************************************************)
(* Claims about the width estimate                                         *)
(***************************************************************************)

\* C13: for every column and every record, the width estimator of the
\* column answers the character count (not the byte length) of what the
\* value renderer of the column produces for the record.
C13_EstimateIsCharCount ==
    wpc = "measured" => westimate = CharCount(wvalue)

(***************************************************************************)
(* Claims about the order of the values of a field                         *)
(***************************************************************************)

\* a is not after b.
NotAfter(i, j) == ocmp[i][j] \in {"Less", "Equal"}

\* C18: the order on the values of a field is total and fixed:
\* Unauthorized < Unavailable (the defunct variant) < Present(x) for every
\* x, Present values ordered by their inner value.
C18_InfoOrderTotalAndFixed ==
    opc = "compared" =>
        /\ \A i \in 1..3, j \in 1..3 :
              LET a == oinfos[i]
                  b == oinfos[j]
              IN  /\ (a = InfoUnauthorized /\ b = InfoDefunct) =>
                         ocmp[i][j] = "Less"
                  /\ (a.tag # 2 /\ b.tag = 2) => ocmp[i][j] = "Less"
                  /\ (a.tag = 2 /\ b.tag = 2 /\ a.val # NaN /\ b.val # NaN) =>
                         ocmp[i][j] = CmpInt(a.val, b.val)
                  /\ ocmp[i][j] = "Less" <=> ocmp[j][i] = "Greater"
                  /\ ocmp[i][j] = "Equal" <=> ocmp[j][i] = "Equal"
        /\ \A i \in 1..3, j \in 1..3, k \in 1..3 :
              (NotAfter(i, j) /\ NotAfter(j, k)) => NotAfter(i, k)

(***************************************************************************)
(* Claims about the tree printer                                           *)
(***************************************************************************)

\* C19: with a known terminal width W every node line is printed and has at
\* most W characters, at every nesting depth and for every pid: the label
\* is cut to the W - (prefix length + pid digits + 4) characters that remain.
C19_NodeLineFitsWidth ==
    (ppc = "printed" /\ terminal_width # None) =>
        /\ line.status = "ok"
        /\ line.chars <= terminal_width[1]
        /\ line.label_chars
              <= terminal_width[1]
                    - (borders + CharCount(to_string(ppid)) + 4)

(***************************************************************************)
(* Claims about the stat parser                                            *)
(***************************************************************************)

\* C20: a stat text with an unexpected layout only makes the query of that
\* one process fail; the process is reported and dropped, the others are
\* listed, and the run is never aborted.
C20_MalformedStatOnlySkipsOne ==
    /\ ~saborted
    /\ \A pid \in squeried :
           /\ pid \in slisted \cup sdiagnosed
           /\ stat[pid] = RegularStat => pid \in slisted

(***************************************************************************)
(* Claims about the variants of a record's fields                          *)
(***************************************************************************)

\* C21: in every record a back-end query produces, a field is Defunct only
\* if the record's is_defunct flag is set; a record that is not defunct has
\* every field Some or Unauthorized.
C21_DefunctOnlyWhenFlagged ==
    (qpc = "done" /\ qresult.kind = "Ok") =>
        \A f \in InfoFields :
            qresult.record.info[f] = InfoDefunct => qresult.record.is_defunct

\* A query has produced a record that is not defunct and has an
\* Unauthorized field.
C21_Witness ==
    /\ qpc = "done"
    /\ qresult.kind = "Ok"
    /\ ~qresult.record.is_defunct
    /\ \E f \in InfoFields : qresult.record.info[f] = InfoUnauthorized
    /\ \A f \in InfoFields : qresult.record.info[f] # InfoDefunct

(***************************************************************************)
(* Claims about repeated builds                                            *)
(***************************************************************************)

\* What a build prints is decided by its outcome and its final widths.
SameRender(a, b) ==
    /\ a.status = b.status
    /\ a.line_len = b.line_len
    /\ Widths(a.columns) = Widths(b.columns)

\* C22: a build on column objects an earlier build has used gives the same
\* output as the build of the same data at the same target width on freshly
\* constructed columns.
C22_RenderPassIndependent ==
    rpasses >= 1 => SameRender(routput, rfresh)

(***************************************************************************)
(* Claims about the watch loop                                             *)
(***************************************************************************)

\* C23: the loop goes poll, render, sleep: a poll starts only when every
\* earlier poll has been rendered, and a printed table holds exactly the
\* records of the poll right before it, none of an earlier poll.
C23_PollRenderSleep ==
    /\ renders <= polls
    /\ polls <= renders + 1
    /\ (watchpc = "render") <=> (polls = renders + 1)
    /\ watchpc = "poll" => polls = renders
    /\ \A r \in screen : r.poll = renders
    /\ watchpc = "sleep" =>
          /\ screen = watch_info
          /\ \A r \in screen : r.poll = polls

\* A second table is on the screen and does not show every pid.
C23_Witness ==
    /\ watchpc = "sleep"
    /\ renders = 2
    /\ screen # {}
    /\ \E pid \in WatchPids : pid \notin {r.pid : r \in screen}

(***************************************************************************)
(* Claims about the shrink-to-fit step                                     *)
(***************************************************************************)

\* The width column i lost to the fit.
Loss(i) == snatural[i].width - sfit.columns[i].width

\* The fit ran to its end on a table wider than its target.
MustShrink ==
    /\ shrinkpc = "fitted"
    /\ sfit.status = "ok"
    /\ sfit.shrunk
    /\ total_width(snatural) > smax_width

\* Two shrinkable columns of widths 50 and 10 without padding.
IsExample ==
    /\ Len(snatural) = 2
    /\ \A i \in 1..2 : snatural[i].can_shrink /\ snatural[i].h_padding = Some(0)
    /\ {snatural[1].width, snatural[2].width} = {50, 10}

\* The wider and the narrower column of the example.
Wide == CHOOSE i \in 1..2 : snatural[i].width = 50
Narrow == CHOOSE i \in 1..2 : snatural[i].width = 10

WiderLosesMore ==
    \A i, j \in DOMAIN snatural :
        (/\ snatural[i].can_shrink
         /\ snatural[j].can_shrink
         /\ snatural[i].width > snatural[j].width) => Loss(i) >= Loss(j)

C25_DeniedSilentOthersReported ==
    \A pid \in lasked :
        /\ lquery[pid] = "Ok" => (pid \in lyielded /\ lstderr[pid] = 0)
        /\ lquery[pid] = "PermissionDenied" =>
              (pid \notin lyielded /\ lstderr[pid] = 0)
        /\ lquery[pid] \notin {"Ok", "PermissionDenied"} =>
              (pid \notin lyielded /\ lstderr[pid] = 1)

(***************************************************************************)
(* Claims about the two styles                                             *)
(***************************************************************************)

\* A cell without its border and padding characters.
Stripped(c) == <<c.text, c.ellipsis>>

\* C26: without their border and padding characters the cells of the
\* bordered table are the cells of the plain table of the same columns and
\* rows, a truncated value apart; and where a column has the same width in
\* both styles the value is truncated the same way in both.
C26_StylesRoundTrip ==
    (renderpc = "rendered" /\ bordered.status = "ok") =>
        \A r \in DOMAIN bdata, i \in DOMAIN bcolumns :
            LET b == bordered.cells[r][i]
                p == plain.cells[r][i]
            IN  /\ ~b.ellipsis => Stripped(b) = Stripped(p)
                /\ bordered.widths[i] = plain.widths[i] =>
                      Stripped(b) = Stripped(p)

\* C27: the top border, the header line, the separator, every row and the
\* bottom border of a bordered table have the same number of characters.
C27_AllLinesSameLength ==
    (renderpc = "rendered" /\ bordered.status = "ok") =>
        /\ bordered.header = bordered.border
        /\ \A r \in DOMAIN bdata : bordered.rows[r] = bordered.border

(***************************************************************************)
(* Claims about the unsigned arithmetic of the fit                         *)
(***************************************************************************)

\* The columns of the rendered table after the measuring loop.
BNatural == MeasureWidths(bcolumns, bdata)

\* The results, as integers, of the usize subtractions of lines 205-208 and
\* 224 for a table at least as wide as its target.
FitSubtractions(natural, m) ==
    LET ns == non_shrinkable_width(natural)
        blend == IF shrinkable_width(natural) = 0 THEN {}
                 ELSE {m - ns} \cup
                      {scaled(natural, m, i) :
                          i \in {j \in DOMAIN natural : natural[j].can_shrink}}
        take == IF \E d \in blend : d < 0 THEN {}
                ELSE {m - (shrinkable_width(BlendedPass(natural, m)) + ns)}
    IN  blend \cup take

\* The results of `max_len - 1` in truncate_string for the cells of a table
\* with these final columns.
CellSubtractions(cols, data) ==
    {cols[i].width - 1 :
        i \in {j \in DOMAIN cols :
                  \E r \in DOMAIN data : CharCount(data[r][j]) > cols[j].width}}

\* C28: for every column set and target width, also a target below the room
\* of the non-shrinkable columns, padding and borders, no unsigned
\* subtraction of the fit or of the truncation has a negative result.
C28_NoUnsignedUnderflow ==
    (renderpc = "rendered" /\ bmax_width # None
        /\ total_width(BNatural) >= bmax_width[1]) =>
        /\ \A d \in FitSubtractions(BNatural, bmax_width[1]) : d >= 0
        /\ bordered.status \notin {"panic", "wrapped"}
        /\ bordered.status = "ok" =>
              \A d \in CellSubtractions(
                          Build(bcolumns, bdata, bmax_width, bchecks).columns,
                          bdata) : d >= 0

(***************************************************************************)
(* Claims about the direction of the fit                                   *)
(***************************************************************************)

\* C29: after the fit no shrinkable column is wider than its natural width:
\* the shrink step only takes width from a column.
C29_ShrinkNeverWidens ==
    (shrinkpc = "fitted" /\ sfit.status = "ok" /\ sfit.shrunk) =>
        \A i \in DOMAIN snatural :
            snatural[i].can_shrink =>
                sfit.columns[i].width <= snatural[i].width

(***************************************************************************)
(* Claims about the parsers of the argument buffer                         *)
(***************************************************************************)

\* The complete strings of the buffer from index `from` on: those that end
\* with a NUL.
RECURSIVE CompleteStrings(_, _)
CompleteStrings(mem, from) ==
    IF \E i \in from..Len(mem) : mem[i] = Nul
    THEN LET end == CHOOSE i \in from..Len(mem) :
                        /\ mem[i] = Nul
                        /\ \A j \in from..(i - 1) : mem[j] # Nul
         IN  <<SubSeq(mem, from, end - 1)>> \o CompleteStrings(mem, end + 1)
    ELSE <<>>

\* The first argc complete strings that follow the path and its padding.
ExpectedArgs ==
    LET all == CompleteStrings(args_mem, FirstArg(args_mem))
    IN  SubSeq(all, 1, Min(arg_count, Len(all)))

\* C30: the parser returns exactly the first argc NUL-terminated strings
\* after the executable path and its padding, never more than argc (none
\* when argc is 0), reports no command line when there is no complete
\* argument, and its arguments joined with one space are the string of the
\* older in-place parser.
C30_ExactlyArgcArguments ==
    argspc = "parsed" =>
        /\ new_result = IF ExpectedArgs = <<>> THEN None
                        ELSE Some(ExpectedArgs)
        /\ new_result # None => Len(new_result[1]) <= arg_count
        /\ old_result = IF new_result = None THEN None
                        ELSE Some(JoinArgs(new_result[1]))

====
